---- MODULE Spec2Model ----
(***************************************************************************)
(* A model of the DataGuard compliance core: the rule engine               *)
(* (lib/core/RuleEngine.js), the field encryptor and the consent manager   *)
(* (lib/processors/DataEncryptor.js).                                      *)
(*                                                                         *)
(* JavaScript objects live in heaps (sequences indexed by object id), so   *)
(* that two references to one object are told apart from two equal copies. *)
(* Text is a sequence of one-character strings, so that case conversion,   *)
(* substring search, JSON and hex encoding are computed, not assumed.      *)
(***************************************************************************)
EXTENDS Integers, Sequences, FiniteSets, TLC

VARIABLES
    config,          \* RuleEngine.config (ConfigManager defaults merged in)
    encryptionKey,   \* DataEncryptor.encryptionKey, the master secret
    rng,             \* number of crypto.randomBytes draws made so far
    now,             \* logical clock behind Date.now() / new Date()
    records,         \* heap of records (plain JS objects holding user data)
    containers,      \* heap of _consent objects {current, history, withdrawals}
    consents,        \* heap of consent records (current, history entries, snapshots)
    prefs,           \* heap of preferences objects
    withdrawals,     \* heap of withdrawal records
    lastOp,          \* the last call made: its name, arguments and result
    input,           \* the argument drawn for a pure function under check
    box,             \* the EncryptedField in the caller's hands
    guard,           \* index.js defaultInstance and the DataGuard objects made
    calls            \* the asynchronous facade calls made, each with its position

vars == <<config, encryptionKey, rng, now, records, containers, consents,
          prefs, withdrawals, lastOp, input, box, guard, calls>>

-----------------------------------------------------------------------------
(* Text *)

LowerLetters == <<"a","b","c","d","e","r","s","u">>
UpperLetters == <<"A","B","C","D","E","R","S","U">>

\* String.prototype.toUpperCase, one character
UpperChar(c) ==
    IF \E i \in 1..Len(LowerLetters) : LowerLetters[i] = c
    THEN UpperLetters[CHOOSE i \in 1..Len(LowerLetters) : LowerLetters[i] = c]
    ELSE c

\* String.prototype.toLowerCase, one character
LowerChar(c) ==
    IF \E i \in 1..Len(UpperLetters) : UpperLetters[i] = c
    THEN LowerLetters[CHOOSE i \in 1..Len(UpperLetters) : UpperLetters[i] = c]
    ELSE c

ToUpperCase(s) == [i \in 1..Len(s) |-> UpperChar(s[i])]
ToLowerCase(s) == [i \in 1..Len(s) |-> LowerChar(s[i])]

\* String.prototype.includes
Includes(s, pat) ==
    \E i \in 0..(Len(s) - Len(pat)) :
        \A j \in 1..Len(pat) : s[i + j] = pat[j]

\* all texts over alphabet A of length at most n
TextsUpTo(A, n) == UNION { [1..k -> A] : k \in 0..n }

-----------------------------------------------------------------------------
(* JavaScript values.  Every value is a record tagged with its kind. *)

Undefined == [t |-> "undefined"]
Null      == [t |-> "null"]
Str(s)    == [t |-> "string", s |-> s]
Num(n)    == [t |-> "number", n |-> n]
Bool(b)   == [t |-> "boolean", b |-> b]
\* a non-empty string constant of the code, never taken apart
Lit(name) == [t |-> "literal", name |-> name]
BigInt(n) == [t |-> "bigint", n |-> n]
Arr(xs)   == [t |-> "array", xs |-> xs]
\* a plain nested object: kv is the sequence of its [k, v] entries, in key order
Obj(kv)   == [t |-> "object", kv |-> kv]

\* ToBoolean
Truthy(v) ==
    CASE v.t \in {"undefined", "null"} -> FALSE
      [] v.t = "string"  -> v.s # << >>
      [] v.t = "number"  -> v.n # 0
      [] v.t = "bigint"  -> v.n # 0
      [] v.t = "boolean" -> v.b
      [] OTHER -> TRUE

\* typeof v === 'object' (null included, as in JavaScript)
TypeofObject(v) ==
    v.t \notin {"undefined", "string", "literal", "number", "bigint", "boolean"}

-----------------------------------------------------------------------------
(* Obligation resolver: which laws apply *)

MaxCountryLen == 2

CountryChars == {"U","S","C","A","B","R","u","s","c","a","b","r","D","e"}

\* the laws.push calls of determineApplicableLaws, for an upper-cased country
PushedLaws(country) ==
    <<"GDPR">>
    \o (IF country \in {<<"U","S">>, <<"C","A">>} THEN <<"CCPA">> ELSE << >>)
    \o (IF country = <<"B","R">> THEN <<"LGPD">> ELSE << >>)
    \o (IF country = <<"C","A">> THEN <<"PIPEDA">> ELSE << >>)

\* [...new Set(xs)]: the first occurrence of each element, in order
RECURSIVE Dedup(_)
Dedup(s) ==
    IF s = << >> THEN << >>
    ELSE LET init == Dedup(SubSeq(s, 1, Len(s) - 1))
             x    == s[Len(s)]
         IN IF \E i \in 1..Len(init) : init[i] = x THEN init ELSE Append(init, x)

\* an optional argument: the property of an options object, or undefined
Opt(o, k) == IF k \in DOMAIN o THEN o[k] ELSE Undefined

\* a || b
OrElse(a, b) == IF Truthy(a) THEN a ELSE b

\* the country as compared by the code: context.country.toUpperCase()
NormalizedCountry_AsGiven(country) == country
NormalizedCountry(country) == ToUpperCase(country)

\* RuleEngine.determineApplicableLaws
determineApplicableLaws(context) ==
    IF Truthy(Opt(context, "country"))
    THEN Dedup(PushedLaws(NormalizedCountry(Opt(context, "country").s)))
    ELSE Dedup(<<"GDPR">>)

-----------------------------------------------------------------------------
(* JSON.stringify and JSON.parse over the modelled values *)

DigitChars == <<"0","1","2","3","4","5","6","7","8","9">>

IsDigit(c) == \E i \in 1..10 : DigitChars[i] = c

DigitValue(c) == (CHOOSE i \in 1..10 : DigitChars[i] = c) - 1

\* the decimal text of a natural number
RECURSIVE NumText(_)
NumText(n) ==
    IF n < 10 THEN <<DigitChars[n + 1]>>
    ELSE NumText(n \div 10) \o <<DigitChars[(n % 10) + 1]>>

\* the value of a run of digits
RECURSIVE DigitsValue(_)
DigitsValue(s) ==
    IF s = << >> THEN 0
    ELSE 10 * DigitsValue(SubSeq(s, 1, Len(s) - 1)) + DigitValue(s[Len(s)])

Quote     == "\""
Backslash == "\\"

\* JSON's escaping of a string body: quote and backslash get a backslash
RECURSIVE Escape(_)
Escape(s) ==
    IF s = << >> THEN << >>
    ELSE (IF s[1] \in {Quote, Backslash} THEN <<Backslash, s[1]>> ELSE <<s[1]>>)
         \o Escape(Tail(s))

RECURSIVE Join(_, _)
Join(texts, sep) ==
    IF texts = << >> THEN << >>
    ELSE IF Len(texts) = 1 THEN texts[1]
    ELSE texts[1] \o sep \o Join(Tail(texts), sep)

\* JSON.stringify throws on a BigInt, at any depth
RECURSIVE StringifyThrows(_)
StringifyThrows(v) ==
    CASE v.t = "bigint" -> TRUE
      [] v.t = "array"  -> \E i \in 1..Len(v.xs) : StringifyThrows(v.xs[i])
      [] v.t = "object" -> \E i \in 1..Len(v.kv) : StringifyThrows(v.kv[i].v)
      [] OTHER -> FALSE

\* JSON.stringify(v) for a value it does not throw on; an undefined array item
\* is written as null and an undefined property is left out
RECURSIVE Stringify(_)
Stringify(v) ==
    CASE v.t = "string"  -> <<Quote>> \o Escape(v.s) \o <<Quote>>
      [] v.t = "number"  -> NumText(v.n)
      [] v.t = "boolean" -> IF v.b THEN <<"t","r","u","e">> ELSE <<"f","a","l","s","e">>
      [] v.t = "array"   ->
            <<"[">>
            \o Join([i \in 1..Len(v.xs) |->
                        IF v.xs[i] = Undefined THEN <<"n","u","l","l">>
                        ELSE Stringify(v.xs[i])], <<",">>)
            \o <<"]">>
      [] v.t = "object"  ->
            LET kept == SelectSeq(v.kv, LAMBDA e : e.v # Undefined)
            IN <<"{">>
               \o Join([i \in 1..Len(kept) |->
                           <<Quote>> \o Escape(kept[i].k) \o <<Quote, ":">>
                           \o Stringify(kept[i].v)], <<",">>)
               \o <<"}">>
      [] OTHER -> <<"n","u","l","l">>

\* A parse result: ok, the value read and the text left over
ParseFail == [ok |-> FALSE, v |-> Undefined, rest |-> << >>]
Parsed(v, rest) == [ok |-> TRUE, v |-> v, rest |-> rest]

StartsWith(s, p) == Len(s) >= Len(p) /\ SubSeq(s, 1, Len(p)) = p

Drop(s, n) == SubSeq(s, n + 1, Len(s))

\* the body of a JSON string, read up to its closing quote
RECURSIVE ParseStringBody(_, _)
ParseStringBody(s, acc) ==
    IF s = << >> THEN ParseFail
    ELSE IF s[1] = Quote THEN Parsed(Str(acc), Tail(s))
    ELSE IF s[1] = Backslash
         THEN IF Len(s) >= 2 /\ s[2] \in {Quote, Backslash}
              THEN ParseStringBody(Drop(s, 2), Append(acc, s[2]))
              ELSE ParseFail
    ELSE ParseStringBody(Tail(s), Append(acc, s[1]))

\* the length of the run of digits s starts with
RECURSIVE DigitRun(_)
DigitRun(s) == IF s # << >> /\ IsDigit(s[1]) THEN 1 + DigitRun(Tail(s)) ELSE 0

RECURSIVE ParseValue(_)
RECURSIVE ParseItems(_, _)
RECURSIVE ParseMembers(_, _)

\* the items of an array after "[" or after a comma
ParseItems(s, acc) ==
    LET item == ParseValue(s)
    IN IF ~item.ok \/ item.rest = << >> THEN ParseFail
       ELSE IF item.rest[1] = "]" THEN Parsed(Arr(Append(acc, item.v)), Tail(item.rest))
       ELSE IF item.rest[1] = "," THEN ParseItems(Tail(item.rest), Append(acc, item.v))
       ELSE ParseFail

\* the members of an object after "{" or after a comma
ParseMembers(s, acc) ==
    IF s = << >> \/ s[1] # Quote THEN ParseFail
    ELSE LET key == ParseStringBody(Tail(s), << >>)
         IN IF ~key.ok \/ key.rest = << >> \/ key.rest[1] # ":" THEN ParseFail
            ELSE LET val == ParseValue(Tail(key.rest))
                     kv  == Append(acc, [k |-> key.v.s, v |-> val.v])
                 IN IF ~val.ok \/ val.rest = << >> THEN ParseFail
                    ELSE IF val.rest[1] = "}" THEN Parsed(Obj(kv), Tail(val.rest))
                    ELSE IF val.rest[1] = "," THEN ParseMembers(Tail(val.rest), kv)
                    ELSE ParseFail

ParseValue(s) ==
    IF s = << >> THEN ParseFail
    ELSE IF s[1] = Quote THEN ParseStringBody(Tail(s), << >>)
    ELSE IF IsDigit(s[1])
         THEN LET n == DigitRun(s)
              IN IF s[1] = "0" /\ n > 1 THEN ParseFail
                 ELSE Parsed(Num(DigitsValue(SubSeq(s, 1, n))), Drop(s, n))
    ELSE IF StartsWith(s, <<"t","r","u","e">>) THEN Parsed(Bool(TRUE), Drop(s, 4))
    ELSE IF StartsWith(s, <<"f","a","l","s","e">>) THEN Parsed(Bool(FALSE), Drop(s, 5))
    ELSE IF StartsWith(s, <<"n","u","l","l">>) THEN Parsed(Null, Drop(s, 4))
    ELSE IF s[1] = "["
         THEN IF Len(s) >= 2 /\ s[2] = "]" THEN Parsed(Arr(<< >>), Drop(s, 2))
              ELSE ParseItems(Tail(s), << >>)
    ELSE IF s[1] = "{"
         THEN IF Len(s) >= 2 /\ s[2] = "}" THEN Parsed(Obj(<< >>), Drop(s, 2))
              ELSE ParseMembers(Tail(s), << >>)
    ELSE ParseFail

\* JSON.parse(text): throws unless the whole text is one JSON value
JsonParse(text) ==
    LET r == ParseValue(text)
    IN IF r.ok /\ r.rest = << >> THEN [threw |-> FALSE, v |-> r.v]
       ELSE [threw |-> TRUE, v |-> Undefined]

-----------------------------------------------------------------------------
(* Encryption engine: DataEncryptor.encrypt / decrypt / isEncrypted.         *)
(* Byte strings produced by the crypto library are opaque values; the hex   *)
(* text that carries one records how it is spelled, because decoding hex    *)
(* does not tell upper-case digits from lower-case ones.                    *)

KeyLength     == 32
IvLength      == 16
SaltLength    == 16
KdfIterations == 100000

\* crypto.randomBytes(len): the n-th draw, distinct from every other draw
RandomBytes(n, len) == [rand |-> n, len |-> len]

\* crypto.pbkdf2Sync(secret, salt, iterations, keylen, digest)
Pbkdf2Sync(secret, salt, iterations, keylen, digest) ==
    [kdf |-> <<secret, salt, iterations, keylen, digest>>]

\* cipher.update + cipher.final under AES-256-GCM: the ciphertext of a text
GcmCipher(key, iv, text) == [sealed |-> text, key |-> key, iv |-> iv]

\* cipher.getAuthTag(): the tag GCM computes over key, iv and ciphertext
GcmAuthTag(key, iv, ciphertext) == [mac |-> <<key, iv, ciphertext>>]

\* the leading bytes of a byte string (a shorter tag GCM still accepts)
Prefix(bytes) == [prefix |-> bytes]

\* buffer.toString('hex') writes lower-case digits
HexEncode(bytes) == [hex |-> bytes, form |-> "lower"]

\* Buffer.from(text, 'hex') and update(text, 'hex'): the bytes, however spelled
HexDecode(text) == text.hex

\* decipher.setAuthTag + decipher.final: the decipher is created without
\* authTagLength, so besides the full tag it accepts its leading bytes at
\* any of GCM's shorter tag lengths
AuthTagAccepted(given, expected) == given = expected \/ given = Prefix(expected)

\* DataEncryptor.encrypt, as the r-th user of randomBytes at time clock
encrypt(value, fieldName, key, r, clock) ==
    IF value = Null \/ value = Undefined THEN value
    ELSE IF value.t # "string" /\ StringifyThrows(value) THEN value
    ELSE LET stringValue == IF value.t = "string" THEN value.s ELSE Stringify(value)
             iv      == RandomBytes(r, IvLength)
             salt    == RandomBytes(r + 1, SaltLength)
             derived == Pbkdf2Sync(key, salt, KdfIterations, KeyLength, "sha256")
             encrypted == GcmCipher(derived, iv, stringValue)
         IN [t |-> "encrypted",
             _encrypted |-> TRUE,
             version |-> "1.0",
             algorithm |-> "aes-256-gcm",
             data |-> HexEncode(encrypted),
             iv |-> HexEncode(iv),
             salt |-> HexEncode(salt),
             authTag |-> HexEncode(GcmAuthTag(derived, iv, encrypted)),
             field |-> fieldName,
             encryptedAt |-> clock]

\* DataEncryptor.isEncrypted
isEncrypted(value) ==
    Truthy(value) /\ TypeofObject(value) /\ value.t = "encrypted"

\* the number of randomBytes draws encrypt(value, ...) makes
EncryptDraws(value) ==
    IF value = Null \/ value = Undefined THEN 0
    ELSE IF value.t # "string" /\ StringifyThrows(value) THEN 0
    ELSE 2

\* what decrypt returns once the decipher has released the text:
\* JSON.parse(decrypted), or the text itself when that throws
Deserialize(decrypted) ==
    LET parsed == JsonParse(decrypted)
    IN IF parsed.threw THEN Str(decrypted) ELSE parsed.v

\* DataEncryptor.decrypt with master secret key: [threw, v]
decrypt(encryptedData, key) ==
    IF ~Truthy(encryptedData) \/ encryptedData.t # "encrypted"
    THEN [threw |-> FALSE, v |-> encryptedData]
    ELSE LET derived == Pbkdf2Sync(key, HexDecode(encryptedData.salt),
                                   KdfIterations, KeyLength, "sha256")
             iv      == HexDecode(encryptedData.iv)
             data    == HexDecode(encryptedData.data)
         IN IF AuthTagAccepted(HexDecode(encryptedData.authTag),
                               GcmAuthTag(derived, iv, data))
            THEN [threw |-> FALSE, v |-> Deserialize(data.sealed)]
            ELSE [threw |-> TRUE, v |-> Undefined]

-----------------------------------------------------------------------------
(* The caller's side of the encryption engine: values to protect, and the   *)
(* ways a stored EncryptedField can be changed before it is decrypted       *)

MaxStrLen == 3

PlainChars == {"1", "a", Quote, "[", "]"}

MasterKeys == {"key-A", "key-B"}

\* the plaintext values the engine is exercised with
PlainValues ==
    { Str(s) : s \in TextsUpTo(PlainChars, MaxStrLen) }
    \cup { Num(0), Num(7), Num(10), Bool(TRUE), Bool(FALSE) }
    \cup { Arr(<< >>), Arr(<<Num(1), Str(<<"a">>)>>), Arr(<<Bool(TRUE), Null>>) }
    \cup { Obj(<< >>), Obj(<<[k |-> <<"a">>, v |-> Num(1)]>>),
           Obj(<<[k |-> <<"a">>, v |-> Arr(<<Str(<<Quote>>)>>)]>>) }
    \cup { BigInt(5), Arr(<<BigInt(5)>>), Null }

EncFieldNames == {"email", "test-field"}

Components == {"data", "iv", "salt", "authTag"}

\* the texts a component text h can be replaced by: respelled in upper case,
\* cut short, altered, or taken from another EncryptedField of the same key
ReplacementTexts(h, donor) ==
    { [hex |-> h.hex, form |-> "upper"],
      [hex |-> Prefix(h.hex), form |-> "lower"],
      [hex |-> [flipped |-> h.hex], form |-> "lower"],
      donor } \ {h}

NoOp == [op |-> "none"]

\* index.js before any call: defaultInstance is null, no DataGuard object yet
NoGuard == [defaultInstance |-> 0, instances |-> << >>, engines |-> 0]

InitEngine ==
    /\ config = [autoEncrypt |-> TRUE]
    /\ rng = 0
    /\ now = 0
    /\ records = << >>
    /\ containers = << >>
    /\ consents = << >>
    /\ prefs = << >>
    /\ withdrawals = << >>
    /\ lastOp = NoOp

heap == <<records, containers, consents, prefs, withdrawals>>

InitEnc ==
    /\ InitEngine
    /\ encryptionKey \in MasterKeys
    /\ input \in [value : PlainValues, field : EncFieldNames]
    /\ box = [state |-> "none"]
    /\ guard = NoGuard
    /\ calls = << >>

\* the caller encrypts the value and keeps the result
Encrypt ==
    /\ box.state = "none"
    /\ LET out == encrypt(input.value, input.field, encryptionKey, rng, now)
       IN /\ box' = [state |-> "sealed", sealed |-> out, held |-> out, changed |-> "none"]
          /\ lastOp' = [op |-> "encrypt", result |-> out]
          /\ rng' = rng + EncryptDraws(input.value)
    /\ now' = now + 1
    /\ UNCHANGED <<config, encryptionKey, heap, input, guard, calls>>

\* one component of the stored EncryptedField is replaced
Tamper ==
    /\ box.state = "sealed"
    /\ isEncrypted(box.held)
    /\ \E c \in Components :
         LET donor == encrypt(Str(<<"x">>), input.field, encryptionKey, rng, now)
         IN \E h \in ReplacementTexts(box.held[c], donor[c]) :
              box' = [box EXCEPT !.state = "changed", !.changed = c,
                                 !.held = [box.held EXCEPT ![c] = h]]
    /\ lastOp' = [op |-> "tamper"]
    /\ UNCHANGED <<config, encryptionKey, rng, now, heap, input, guard, calls>>

\* the held value is decrypted by an encryptor whose master secret is key
Decrypt ==
    /\ box.state \in {"sealed", "changed"}
    /\ \E key \in MasterKeys :
         lastOp' = [op |-> "decrypt", key |-> key, result |-> decrypt(box.held, key)]
    /\ box' = [box EXCEPT !.state = "opened"]
    /\ UNCHANGED <<config, encryptionKey, rng, now, heap, input, guard, calls>>

NextEnc == Encrypt \/ Tamper \/ Decrypt

SpecEnc == InitEnc /\ [][NextEnc]_vars

-----------------------------------------------------------------------------
(* Claims about the encryption engine, checked under SpecEnc *)

\* the decrypt call just made was of the EncryptedField exactly as encrypt
\* returned it, by the encryptor that made it
DecryptedUntouched ==
    /\ lastOp.op = "decrypt"
    /\ box.changed = "none"
    /\ lastOp.key = encryptionKey

\* C3: for every non-null value v and field name f, decrypt(encrypt(v, f))
\* returns a value equal to v and of the same type as v; in particular every
\* string comes back as the same string.
C3_RoundTrip ==
    (DecryptedUntouched /\ input.value # Null)
        => (~lastOp.result.threw /\ lastOp.result.v = input.value)

\* C4: changing the ciphertext, iv, salt or authTag of an EncryptedField that
\* encrypt produced, or decrypting it with a different master secret, makes
\* decrypt raise a decryption error.
C4_TamperRaises ==
    (/\ lastOp.op = "decrypt"
     /\ isEncrypted(box.sealed)
     /\ (box.changed # "none" \/ lastOp.key # encryptionKey))
        => lastOp.result.threw

\* what holds of the code instead: a changed EncryptedField either makes
\* decrypt raise or decrypts to exactly what the unchanged one decrypts to
ChangedNeverYieldsOtherValue ==
    (lastOp.op = "decrypt" /\ isEncrypted(box.sealed) /\ ~lastOp.result.threw)
        => lastOp.result = decrypt(box.sealed, encryptionKey)

-----------------------------------------------------------------------------
(* Records: plain objects.  props is the sequence of the object's own       *)
(* properties in insertion order: key k, value v, enumerable flag e.        *)

EmptyObject == [props |-> << >>]

\* k in o
HasOwn(o, k) == \E i \in 1..Len(o.props) : o.props[i].k = k

\* o[k]
Get(o, k) ==
    IF HasOwn(o, k)
    THEN o.props[CHOOSE i \in 1..Len(o.props) : o.props[i].k = k].v
    ELSE Undefined

\* o[k] = v: an existing property keeps its place and its flags
Put(o, k, v) ==
    IF HasOwn(o, k)
    THEN [props |-> [i \in 1..Len(o.props) |->
                        IF o.props[i].k = k THEN [o.props[i] EXCEPT !.v = v]
                        ELSE o.props[i]]]
    ELSE [props |-> Append(o.props, [k |-> k, v |-> v, e |-> TRUE])]

\* delete o[k]
Delete(o, k) == [props |-> SelectSeq(o.props, LAMBDA p : p.k # k)]

\* { ...o }: a new object with o's enumerable own properties, values shared
Spread(o) == [props |-> SelectSeq(o.props, LAMBDA p : p.e)]

\* Object.defineProperty(o, k, { value: v, enumerable: false, configurable: true })
DefineHidden(o, k, v) ==
    IF HasOwn(o, k)
    THEN [props |-> [i \in 1..Len(o.props) |->
                        IF o.props[i].k = k THEN [k |-> k, v |-> v, e |-> FALSE]
                        ELSE o.props[i]]]
    ELSE [props |-> Append(o.props, [k |-> k, v |-> v, e |-> FALSE])]

\* Object.entries(o)
Entries(o) == SelectSeq(o.props, LAMBDA p : p.e)

\* the keys Object.keys(o) lists, as a set
EnumerableKeys(o) == { o.props[i].k : i \in { j \in 1..Len(o.props) : o.props[j].e } }

\* a reference to the _consent object with the given id
Ref(id) == [t |-> "ref", id |-> id]

\* the five heaps as one value, so that an operation is a function on heaps
TheHeap ==
    [records |-> records, containers |-> containers, consents |-> consents,
     prefs |-> prefs, withdrawals |-> withdrawals]

GeneralProcessing ==
    Str(<<"g","e","n","e","r","a","l","_","p","r","o","c","e","s","s","i","n","g">>)
Registration == Str(<<"r","e","g","i","s","t","r","a","t","i","o","n">>)

-----------------------------------------------------------------------------
(* Consent ledger: ConsentManager.recordConsent / withdrawConsent.          *)
(* A consent record holds the id of its preferences object and the id of    *)
(* its last withdrawal record (0 when it has none).                         *)

\* the consentRecord literal of recordConsent; pid is its preferences object
NewConsentRecord(consentOptions, context, clock, pid) ==
    [version |-> "1.0",
     recordedAt |-> clock,
     ipAddress |-> Opt(context, "ipAddress"),
     userAgent |-> Opt(context, "userAgent"),
     lawfulBasis |-> "consent",
     purpose |-> OrElse(Opt(consentOptions, "purpose"), GeneralProcessing),
     specific |-> Opt(consentOptions, "specific") # Bool(FALSE),
     informed |-> Opt(consentOptions, "informed") # Bool(FALSE),
     unambiguous |-> Opt(consentOptions, "unambiguous") # Bool(FALSE),
     preferences |-> pid,
     regulation |-> "GDPR",
     article |-> "Article_7",
     requiresExplicitAction |-> TRUE,
     canWithdraw |-> TRUE,
     withdrawalMethod |-> "same_as_consent_method",
     withdrawalRecorded |-> FALSE,
     withdrawn |-> FALSE,
     lastWithdrawal |-> 0]

\* a preferences literal that takes every flag, necessary included, from the
\* options
NewPreferences_AsGiven(consentOptions) ==
    [necessary |-> OrElse(Opt(consentOptions, "necessary"), Bool(FALSE)),
     marketing |-> OrElse(Opt(consentOptions, "marketing"), Bool(FALSE)),
     analytics |-> OrElse(Opt(consentOptions, "analytics"), Bool(FALSE)),
     personalization |-> OrElse(Opt(consentOptions, "personalization"), Bool(FALSE)),
     thirdPartySharing |-> OrElse(Opt(consentOptions, "thirdPartySharing"), Bool(FALSE)),
     internationalTransfer |->
         OrElse(Opt(consentOptions, "internationalTransfer"), Bool(FALSE))]

\* the preferences literal of recordConsent
NewPreferences(consentOptions) ==
    [necessary |-> Bool(TRUE),
     marketing |-> OrElse(Opt(consentOptions, "marketing"), Bool(FALSE)),
     analytics |-> IF Opt(consentOptions, "analytics") # Undefined
                   THEN Opt(consentOptions, "analytics") ELSE Bool(TRUE),
     personalization |-> OrElse(Opt(consentOptions, "personalization"), Bool(FALSE)),
     thirdPartySharing |-> OrElse(Opt(consentOptions, "thirdPartySharing"), Bool(FALSE)),
     internationalTransfer |->
         OrElse(Opt(consentOptions, "internationalTransfer"), Bool(FALSE))]

\* userData._consent.history.push(userData._consent.current)
PushHistory_Replace(history, current) == <<current>>
PushHistory(history, current) == Append(history, current)

\* ConsentManager.recordConsent(userData, consentOptions, context) on the
\* record with id rid: the heaps after the call
recordConsent(H, rid, consentOptions, context, clock) ==
    LET pid == Len(H.prefs) + 1
        cid == Len(H.consents) + 1
        H1  == [H EXCEPT !.prefs = Append(@, NewPreferences(consentOptions)),
                         !.consents = Append(@, NewConsentRecord(consentOptions,
                                                                 context, clock, pid))]
        userData == H.records[rid]
    IN IF ~Truthy(Get(userData, "_consent"))
       THEN LET kid == Len(H.containers) + 1
            IN [H1 EXCEPT
                  !.containers = Append(@, [current |-> cid, history |-> << >>,
                                            hasWithdrawals |-> FALSE,
                                            withdrawals |-> << >>]),
                  !.records[rid] = Put(userData, "_consent", Ref(kid))]
       ELSE LET kid == Get(userData, "_consent").id
            IN [H1 EXCEPT
                  !.containers[kid].history = PushHistory(@, H.containers[kid].current),
                  !.containers[kid].current = cid]

\* the preferences literal of withdrawConsent('all')
WithdrawnPreferences ==
    [necessary |-> Bool(TRUE),
     marketing |-> Bool(FALSE),
     analytics |-> Bool(FALSE),
     personalization |-> Bool(FALSE),
     thirdPartySharing |-> Bool(FALSE),
     internationalTransfer |-> Bool(FALSE)]

\* withdrawConsent throws 'No consent records found for user'
withdrawConsentThrows(H, rid) == ~Truthy(Get(H.records[rid], "_consent"))

\* userData._consent.current.preferences[consentType] = false
WithdrawOne_ZeroAll(preferences, consentType) ==
    [k \in DOMAIN preferences \cup {consentType} |-> Bool(FALSE)]
WithdrawOne(preferences, consentType) ==
    [k \in DOMAIN preferences \cup {consentType} |->
        IF k = consentType THEN Bool(FALSE) ELSE preferences[k]]

\* ConsentManager.withdrawConsent(userData, consentType, context) on the
\* record with id rid, which has a _consent: the heaps after the call
withdrawConsent(H, rid, consentType, context, clock) ==
    LET kid  == Get(H.records[rid], "_consent").id
        cur  == H.containers[kid].current
        snap == Len(H.consents) + 1      \* previousConsent: { ...current }
        wid  == Len(H.withdrawals) + 1
        withdrawalRecord ==
            [withdrawnAt |-> clock,
             withdrawnConsentType |-> consentType,
             ipAddress |-> Opt(context, "ipAddress"),
             userAgent |-> Opt(context, "userAgent"),
             previousConsent |-> snap]
        H1 == [H EXCEPT !.consents = Append(@, H.consents[cur]),
                        !.withdrawals = Append(@, withdrawalRecord)]
        H2 == IF consentType = "all"
              THEN [H1 EXCEPT !.prefs = Append(@, WithdrawnPreferences),
                              !.consents[cur].preferences = Len(H1.prefs) + 1,
                              !.consents[cur].withdrawn = TRUE]
              ELSE [H1 EXCEPT !.prefs[H1.consents[cur].preferences] =
                                   WithdrawOne(@, consentType)]
    IN [H2 EXCEPT !.consents[cur].withdrawalRecorded = TRUE,
                  !.consents[cur].lastWithdrawal = wid,
                  !.containers[kid].hasWithdrawals = TRUE,
                  !.containers[kid].withdrawals = Append(@, wid)]

\* new Date().toISOString() at the given clock reading: never the empty text
ToISOString(clock) == Str(<<"T">> \o NumText(clock))

\* ConsentManager.isGdprCompliantConsent(consent), as a condition
isGdprCompliantConsent_Any(consent) == TRUE
isGdprCompliantConsent(consent) ==
    /\ consent.specific = TRUE
    /\ consent.informed = TRUE
    /\ consent.unambiguous = TRUE
    /\ Truthy(ToISOString(consent.recordedAt))
    /\ Truthy(consent.purpose)
    /\ consent.canWithdraw = TRUE

\* consent.preferences[name] === true
PreferenceIsTrue(preferences, name) ==
    name \in DOMAIN preferences /\ preferences[name] = Bool(TRUE)

\* ConsentManager.hasValidConsent(userData, processingType) on the record
\* with id rid
hasValidConsent(H, rid, processingType) ==
    IF ~Truthy(Get(H.records[rid], "_consent")) THEN FALSE
    ELSE LET consent == H.consents[H.containers[Get(H.records[rid], "_consent").id].current]
             preferences == H.prefs[consent.preferences]
         IN IF ~isGdprCompliantConsent(consent) THEN FALSE
            ELSE CASE processingType = "necessary" -> TRUE
                   [] processingType = "marketing" ->
                        PreferenceIsTrue(preferences, "marketing")
                   [] processingType = "analytics" ->
                        PreferenceIsTrue(preferences, "analytics")
                   [] processingType = "personalization" ->
                        PreferenceIsTrue(preferences, "personalization")
                   [] processingType = "third_party_sharing" ->
                        PreferenceIsTrue(preferences, "thirdPartySharing")
                   [] processingType = "international_transfer" ->
                        PreferenceIsTrue(preferences, "internationalTransfer")
                   [] OTHER -> PreferenceIsTrue(preferences, processingType)

-----------------------------------------------------------------------------
(* What a caller can read from a record's consent state *)

RECURSIVE ConsentView(_, _)
\* the consent record with id cid, with every object it refers to read out
ConsentView(H, cid) ==
    LET c == H.consents[cid]
    IN [c EXCEPT
          !.preferences = H.prefs[c.preferences],
          !.lastWithdrawal =
              IF c.lastWithdrawal = 0 THEN Undefined
              ELSE LET w == H.withdrawals[c.lastWithdrawal]
                   IN [w EXCEPT !.previousConsent = ConsentView(H, w.previousConsent)]]

\* the withdrawal record with id wid, read out
WithdrawalView(H, wid) ==
    LET w == H.withdrawals[wid]
    IN [w EXCEPT !.previousConsent = ConsentView(H, w.previousConsent)]

\* the _consent object with id kid, read out
ContainerView(H, kid) ==
    LET k == H.containers[kid]
    IN [current |-> ConsentView(H, k.current),
        history |-> [i \in 1..Len(k.history) |-> ConsentView(H, k.history[i])],
        hasWithdrawals |-> k.hasWithdrawals,
        withdrawals |-> [i \in 1..Len(k.withdrawals) |->
                            WithdrawalView(H, k.withdrawals[i])]]

-----------------------------------------------------------------------------
(* The consent ledger driven by a caller, on one record *)

MaxConsentCalls == 4

ConsentOptionSets ==
    { [purpose |-> Registration, marketing |-> Bool(TRUE), analytics |-> Bool(FALSE)],
      [marketing |-> Bool(TRUE), personalization |-> Bool(TRUE),
       thirdPartySharing |-> Bool(TRUE)],
      [analytics |-> Bool(TRUE), specific |-> Bool(FALSE), necessary |-> Bool(FALSE),
       internationalTransfer |-> Bool(TRUE), purpose |-> Str(<< >>)],
      << >> }

ConsentTypes == {"all", "marketing", "analytics", "necessary", "third_party_sharing"}

CallerContexts == { [ipAddress |-> Str(<<"1">>)] }

InitConsent ==
    /\ config = [autoEncrypt |-> TRUE]
    /\ encryptionKey \in {"key-A"}
    /\ rng = 0
    /\ now = 0
    /\ records = <<EmptyObject>>
    /\ containers = << >>
    /\ consents = << >>
    /\ prefs = << >>
    /\ withdrawals = << >>
    /\ lastOp = NoOp
    /\ input = Undefined
    /\ box = [state |-> "none"]
    /\ guard = NoGuard
    /\ calls = << >>

SetHeap(H) ==
    /\ records' = H.records
    /\ containers' = H.containers
    /\ consents' = H.consents
    /\ prefs' = H.prefs
    /\ withdrawals' = H.withdrawals

RecordConsent ==
    /\ now < MaxConsentCalls
    /\ \E rid \in 1..Len(records), o \in ConsentOptionSets, c \in CallerContexts :
         /\ SetHeap(recordConsent(TheHeap, rid, o, c, now))
         /\ lastOp' = [op |-> "recordConsent", rid |-> rid, options |-> o, threw |-> FALSE]
    /\ now' = now + 1
    /\ UNCHANGED <<config, encryptionKey, rng, input, box, guard, calls>>

WithdrawConsent ==
    /\ now < MaxConsentCalls
    /\ \E rid \in 1..Len(records), ty \in ConsentTypes, c \in CallerContexts :
         /\ ~withdrawConsentThrows(TheHeap, rid)
         /\ SetHeap(withdrawConsent(TheHeap, rid, ty, c, now))
         /\ lastOp' = [op |-> "withdrawConsent", rid |-> rid, consentType |-> ty,
                       threw |-> FALSE]
    /\ now' = now + 1
    /\ UNCHANGED <<config, encryptionKey, rng, input, box, guard, calls>>

WithdrawConsentFails ==
    /\ now < MaxConsentCalls
    /\ \E rid \in 1..Len(records), ty \in ConsentTypes :
         /\ withdrawConsentThrows(TheHeap, rid)
         /\ lastOp' = [op |-> "withdrawConsent", rid |-> rid, consentType |-> ty,
                       threw |-> TRUE]
    /\ now' = now + 1
    /\ UNCHANGED <<config, encryptionKey, rng, heap, input, box, guard, calls>>

ProcessingTypes ==
    {"necessary", "marketing", "analytics", "personalization", "third_party_sharing",
     "international_transfer", "thirdPartySharing", "profiling"}

\* the caller asks whether a processing type is consented to
HasValidConsent ==
    /\ \E rid \in 1..Len(records), ty \in ProcessingTypes :
         lastOp' = [op |-> "hasValidConsent", rid |-> rid, processingType |-> ty,
                    threw |-> FALSE, result |-> hasValidConsent(TheHeap, rid, ty)]
    /\ UNCHANGED <<config, encryptionKey, rng, now, heap, input, box, guard, calls>>

NextConsent == RecordConsent \/ WithdrawConsent \/ WithdrawConsentFails \/ HasValidConsent

SpecConsent == InitConsent /\ [][NextConsent]_vars

-----------------------------------------------------------------------------
(* Claims about the consent ledger, checked under SpecConsent *)

\* the _consent object with id kid as a caller reads it in the current state
ContainerNow(kid) == ContainerView(TheHeap, kid)

\* the withdrawal record with id wid as a caller reads it in the current state
WithdrawalNow(wid) == WithdrawalView(TheHeap, wid)

\* the id of the _consent object of record rid
ConsentOf(rid) == Get(records[rid], "_consent").id

\* this step is a call of the named operation that returned normally
Called(name) == now' = now + 1 /\ lastOp'.op = name /\ ~lastOp'.threw

\* C8: history is append-only.  No step removes, reorders or changes an entry
\* already in history, and a recordConsent on a record that has a current
\* consent appends exactly that current as the last entry and installs a
\* newly built consent record as current.
C8_HistoryAppendOnly ==
    [][ /\ \A kid \in 1..Len(containers) :
              /\ Len(containers'[kid].history) >= Len(containers[kid].history)
              /\ \A i \in 1..Len(containers[kid].history) :
                    /\ containers'[kid].history[i] = containers[kid].history[i]
                    /\ ContainerNow(kid)'.history[i] = ContainerNow(kid).history[i]
        /\ \A rid \in 1..Len(records) :
             (Called("recordConsent") /\ lastOp'.rid = rid
                /\ Truthy(Get(records[rid], "_consent")))
              => LET kid == ConsentOf(rid)
                     n   == Len(containers[kid].history)
                 IN /\ containers'[kid].history
                          = Append(containers[kid].history, containers[kid].current)
                    /\ ContainerNow(kid)'.history[n + 1] = ContainerNow(kid).current
                    /\ containers'[kid].current \notin 1..Len(consents)
                    /\ ContainerNow(kid)'.current.recordedAt = now
      ]_vars

\* a history of two entries, the older of which saw a withdrawal made after it
\* had been superseded
C8_Witness ==
    /\ Len(containers) = 1
    /\ Len(containers[1].history) = 2
    /\ lastOp.op = "withdrawConsent"
    /\ ~lastOp.threw

\* C9: each entry appended to withdrawals holds the consent state, with the
\* value of every preference, as it was immediately before that withdrawal,
\* and keeps exactly those values under every later call.
C9_WithdrawalSnapshot ==
    [][ /\ \A wid \in 1..Len(withdrawals) : WithdrawalNow(wid)' = WithdrawalNow(wid)
        /\ \A rid \in 1..Len(records) :
             (Called("withdrawConsent") /\ lastOp'.rid = rid)
              => LET kid == ConsentOf(rid)
                     n   == Len(containers[kid].withdrawals)
                 IN ContainerNow(kid)'.withdrawals[n + 1].previousConsent
                        = ContainerNow(kid).current
      ]_vars

\* C10: withdrawConsent(record, T, ctx) for a specific type T sets
\* preferences[T] of the current consent to false, leaves every other
\* preference of the current consent unchanged, and makes withdrawals exactly
\* one entry longer, creating it when it did not exist.
C10_WithdrawSpecific ==
    [][ \A rid \in 1..Len(records) :
          (Called("withdrawConsent") /\ lastOp'.rid = rid
             /\ lastOp'.consentType # "all")
            => LET kid    == ConsentOf(rid)
                   T      == lastOp'.consentType
                   before == ContainerNow(kid)
                   after  == ContainerNow(kid)'
               IN /\ after.current.preferences[T] = Bool(FALSE)
                  /\ DOMAIN after.current.preferences
                        = DOMAIN before.current.preferences \cup {T}
                  /\ \A k \in DOMAIN before.current.preferences \ {T} :
                        after.current.preferences[k] = before.current.preferences[k]
                  /\ after.hasWithdrawals
                  /\ Len(after.withdrawals) = Len(before.withdrawals) + 1
                  /\ containers'[kid].current = containers[kid].current
      ]_vars

\* marketing has just been withdrawn from a consent that granted marketing and
\* personalization: personalization is still granted, one withdrawal recorded
C10_Witness ==
    /\ lastOp.op = "withdrawConsent"
    /\ ~lastOp.threw
    /\ lastOp.consentType = "marketing"
    /\ LET k == ContainerNow(ConsentOf(lastOp.rid))
       IN /\ k.current.preferences["marketing"] = Bool(FALSE)
          /\ k.current.preferences["personalization"] = Bool(TRUE)
          /\ Len(k.withdrawals) = 1

-----------------------------------------------------------------------------
(* The obligation resolver on its own: a context is drawn, the laws resolved *)

Countries == { Str(s) : s \in TextsUpTo(CountryChars, MaxCountryLen) }

LawContexts ==
    { [country |-> c] : c \in Countries }
    \cup { [country |-> c, action |-> Registration] : c \in Countries }
    \cup { << >>, [action |-> Registration] }

InitLaws ==
    /\ InitEngine
    /\ encryptionKey \in {"key-A"}
    /\ input \in LawContexts
    /\ box = [state |-> "none"]
    /\ guard = NoGuard
    /\ calls = << >>

ResolveLaws ==
    /\ lastOp = NoOp
    /\ lastOp' = [op |-> "determineApplicableLaws",
                  result |-> determineApplicableLaws(input)]
    /\ UNCHANGED <<config, encryptionKey, rng, now, heap, input, box, guard, calls>>

NextLaws == ResolveLaws

SpecLaws == InitLaws /\ [][NextLaws]_vars

\* the country of the drawn context in lower case; empty when it has none
LowerCountry ==
    IF "country" \in DOMAIN input THEN ToLowerCase(input.country.s) ELSE << >>

\* C5: the resolved laws depend only on context.country compared without
\* regard to case: [GDPR, CCPA] for US, [GDPR, CCPA, PIPEDA] for CA,
\* [GDPR, LGPD] for BR and exactly [GDPR] for any other or absent country,
\* in this order and without duplicates.
C5_ResolvedLaws ==
    lastOp.op = "determineApplicableLaws" =>
        lastOp.result =
            CASE LowerCountry = <<"u","s">> -> <<"GDPR", "CCPA">>
              [] LowerCountry = <<"c","a">> -> <<"GDPR", "CCPA", "PIPEDA">>
              [] LowerCountry = <<"b","r">> -> <<"GDPR", "LGPD">>
              [] OTHER -> <<"GDPR">>

\* the laws were resolved for a country written in lower case
C5_Witness ==
    /\ lastOp.op = "determineApplicableLaws"
    /\ "country" \in DOMAIN input
    /\ input.country = Str(<<"c","a">>)
    /\ lastOp.result = <<"GDPR", "CCPA", "PIPEDA">>

-----------------------------------------------------------------------------
(* Field classifier: RuleEngine.classifyField / inferClassification *)

\* the characters of each field name the model uses
Spelling(fieldName) ==
    CASE fieldName = "email"             -> <<"e","m","a","i","l">>
      [] fieldName = "password"          -> <<"p","a","s","s","w","o","r","d">>
      [] fieldName = "gps"               -> <<"g","p","s">>
      [] fieldName = "socialSecurity"    ->
            <<"s","o","c","i","a","l","S","e","c","u","r","i","t","y">>
      [] fieldName = "userEmail"         -> <<"u","s","e","r","E","m","a","i","l">>
      [] fieldName = "_consent"          -> <<"_","c","o","n","s","e","n","t">>
      [] fieldName = "_deletionMetadata" ->
            <<"_","d","e","l","e","t","i","o","n","M","e","t","a","d","a","t","a">>
      [] fieldName = "_ccpaRights"       ->
            <<"_","c","c","p","a","R","i","g","h","t","s">>
      [] fieldName = "_compliance"       ->
            <<"_","c","o","m","p","l","i","a","n","c","e">>
      [] fieldName = "_complianceConsent" ->
            <<"_","c","o","m","p","l","i","a","n","c","e","C","o","n","s","e","n","t">>
      [] fieldName = "Email" ->
            <<"E","m","a","i","l">>
      [] fieldName = "emailPassword" ->
            <<"e","m","a","i","l","P","a","s","s","w","o","r","d">>
      [] fieldName = "mobile" ->
            <<"m","o","b","i","l","e">>
      [] fieldName = "homePhone" ->
            <<"h","o","m","e","P","h","o","n","e">>
      [] fieldName = "dobPhone" ->
            <<"d","o","b","P","h","o","n","e">>
      [] fieldName = "birthYear" ->
            <<"b","i","r","t","h","Y","e","a","r">>
      [] fieldName = "gpsDob" ->
            <<"g","p","s","D","o","b">>
      [] fieldName = "coordinates" ->
            <<"c","o","o","r","d","i","n","a","t","e","s">>
      [] fieldName = "passLocation" ->
            <<"p","a","s","s","L","o","c","a","t","i","o","n">>
      [] fieldName = "pwd" ->
            <<"p","w","d">>
      [] fieldName = "name" ->
            <<"n","a","m","e">>
      [] fieldName = "constructor" ->
            <<"c","o","n","s","t","r","u","c","t","o","r">>
      [] fieldName = "toString" ->
            <<"t","o","S","t","r","i","n","g">>
      [] fieldName = "phone" ->
            <<"p","h","o","n","e">>
      [] fieldName = "interests" ->
            <<"i","n","t","e","r","e","s","t","s">>
      [] fieldName = "secret" ->
            <<"s","e","c","r","e","t">>
      [] fieldName = "passportNumber" ->
            <<"p","a","s","s","p","o","r","t","N","u","m","b","e","r">>
      [] fieldName = "driversLicense" ->
            <<"d","r","i","v","e","r","s","L","i","c","e","n","s","e">>
      [] fieldName = "userId" ->
            <<"u","s","e","r","I","d">>
      [] fieldName = "mobileNumber" ->
            <<"m","o","b","i","l","e","N","u","m","b","e","r">>
      [] fieldName = "creditCard" ->
            <<"c","r","e","d","i","t","C","a","r","d">>
      [] fieldName = "age" ->
            <<"a","g","e">>

\* one row of the table loadFieldClassifications returns
Row(type, sensitivity, laws, recommendation, encryptionRequired, retentionDays) ==
    [type |-> type, sensitivity |-> sensitivity, laws |-> laws,
     recommendation |-> Lit(recommendation),
     encryptionRequired |-> Bool(encryptionRequired),
     retentionDays |-> Num(retentionDays)]

\* RuleEngine.loadFieldClassifications
TableNames ==
    {"email", "phone", "phoneNumber", "birthdate", "age", "location", "gps",
     "creditCard", "password", "interests", "preferences"}

fieldClassifications(fieldName) ==
    CASE fieldName = "email" ->
            Row("direct_identifier", "high", <<"GDPR", "CCPA", "LGPD">>,
                "encrypt_at_rest", TRUE, 365)
      [] fieldName \in {"phone", "phoneNumber"} ->
            Row("direct_identifier", "high", <<"GDPR", "CCPA">>,
                "encrypt_at_rest", TRUE, 365)
      [] fieldName = "birthdate" ->
            Row("demographic", "medium", <<"GDPR", "COPPA">>,
                "store_age_range_instead", FALSE, 365)
      [] fieldName = "age" ->
            Row("demographic", "low", <<"GDPR">>, "store_age_range", FALSE, 365)
      [] fieldName = "location" ->
            Row("geolocation", "high", <<"GDPR">>,
                "store_region_instead_of_precise", TRUE, 90)
      [] fieldName = "gps" ->
            Row("geolocation", "high", <<"GDPR">>,
                "avoid_storage_use_ephemeral", TRUE, 7)
      [] fieldName = "creditCard" ->
            Row("financial", "critical", <<"GDPR", "PCI_DSS">>,
                "never_store_use_tokenization", TRUE, 0)
      [] fieldName = "password" ->
            Row("credential", "critical", <<"GDPR">>, "hash_with_salt", TRUE, 0)
      [] fieldName = "interests" ->
            Row("behavioral", "low", <<"GDPR">>, "anonymous_aggregation_ok", FALSE, 730)
      [] fieldName = "preferences" ->
            Row("behavioral", "low", <<"GDPR">>, "can_be_stored_anonymously", FALSE, 730)

\* a classification inferred from a name pattern: type, sensitivity and laws only
Inferred(type, sensitivity, laws) ==
    [type |-> type, sensitivity |-> sensitivity, laws |-> laws,
     recommendation |-> Undefined,
     encryptionRequired |-> Undefined,
     retentionDays |-> Undefined]

\* RuleEngine.inferClassification
inferClassification(fieldName) ==
    LET lowerField == ToLowerCase(Spelling(fieldName))
        has(p) == Includes(lowerField, p)
    IN IF has(<<"e","m","a","i","l">>)
       THEN Inferred("direct_identifier", "high", <<"GDPR", "CCPA">>)
       ELSE IF has(<<"p","h","o","n","e">>) \/ has(<<"m","o","b","i","l","e">>)
       THEN Inferred("direct_identifier", "high", <<"GDPR", "CCPA">>)
       ELSE IF has(<<"b","i","r","t","h">>) \/ has(<<"d","o","b">>)
       THEN Inferred("demographic", "medium", <<"GDPR">>)
       ELSE IF has(<<"l","o","c","a","t","i","o","n">>) \/ has(<<"g","p","s">>)
               \/ has(<<"c","o","o","r","d">>)
       THEN Inferred("geolocation", "high", <<"GDPR">>)
       ELSE IF has(<<"p","a","s","s">>) \/ has(<<"p","w","d">>)
       THEN Inferred("credential", "critical", <<"GDPR">>)
       ELSE [type |-> "general", sensitivity |-> "low", laws |-> <<"GDPR">>,
             recommendation |-> Lit("standard_handling"),
             encryptionRequired |-> Bool(FALSE),
             retentionDays |-> Num(365)]

\* the names every object inherits from Object.prototype, among those the
\* model uses as field names
ObjectPrototypeNames == {"constructor", "toString"}

\* this.fieldClassifications[fieldName] for an inherited name: a function,
\* which is truthy and has none of the properties of a classification (the
\* text "undefined" stands for a type or sensitivity that is undefined)
InheritedMember(fieldName) ==
    [type |-> "undefined", sensitivity |-> "undefined", laws |-> Undefined,
     recommendation |-> Undefined,
     encryptionRequired |-> Undefined,
     retentionDays |-> Undefined]

\* RuleEngine.classifyField
classifyField(fieldName) ==
    IF fieldName \in TableNames THEN fieldClassifications(fieldName)
    ELSE IF fieldName \in ObjectPrototypeNames THEN InheritedMember(fieldName)
    ELSE inferClassification(fieldName)

\* the position of the first c in text s, 0 when there is none
IndexOf(s, c) ==
    IF \E i \in 1..Len(s) : s[i] = c
    THEN CHOOSE i \in 1..Len(s) : s[i] = c /\ \A j \in 1..(i - 1) : s[j] # c
    ELSE 0

Stars(n) == [i \in 1..n |-> "*"]

\* RuleEngine.maskSensitiveValue
maskSensitiveValue(fieldName, value) ==
    IF fieldName \in {"email", "phone", "phoneNumber", "password", "creditCard"}
       /\ value.t = "string"
    THEN CASE fieldName = "email" ->
                LET at     == IndexOf(value.s, "@")
                    user   == IF at = 0 THEN value.s ELSE SubSeq(value.s, 1, at - 1)
                    rest   == IF at = 0 THEN << >> ELSE Drop(value.s, at)
                    at2    == IndexOf(rest, "@")
                    domain == IF at = 0 THEN <<"u","n","d","e","f","i","n","e","d">>
                              ELSE IF at2 = 0 THEN rest ELSE SubSeq(rest, 1, at2 - 1)
                IN Str(SubSeq(user, 1, IF Len(user) < 2 THEN Len(user) ELSE 2)
                       \o Stars(3) \o <<"@">> \o domain)
           [] fieldName \in {"phone", "phoneNumber"} ->
                Str([i \in 1..Len(value.s) |->
                        IF /\ i + 4 <= Len(value.s)
                           /\ \A j \in i..(i + 4) : IsDigit(value.s[j])
                        THEN "*" ELSE value.s[i]])
           [] fieldName = "password" -> Str(Stars(8))
           [] OTHER -> value
    ELSE value

\* classifyData: if (value === undefined || value === null) continue
SkippedValue_Never(value) == FALSE
SkippedValue(value) == value = Undefined \/ value = Null

\* RuleEngine.classifyData: one classification per enumerable field whose value
\* is neither undefined nor null, in the record's field order
classifyData(data) ==
    LET fields == SelectSeq(Entries(data), LAMBDA p : ~SkippedValue(p.v))
    IN [i \in 1..Len(fields) |->
          LET classification == classifyField(fields[i].k)
          IN [field |-> fields[i].k,
              value |-> maskSensitiveValue(fields[i].k, fields[i].v),
              type |-> classification.type,
              sensitivity |-> classification.sensitivity,
              laws |-> classification.laws,
              recommendation |-> classification.recommendation,
              encryptionRequired |-> classification.encryptionRequired,
              retentionDays |-> classification.retentionDays]]

-----------------------------------------------------------------------------
(* Rule engine: RuleEngine.applyLaw and its helpers *)

MinPasswordLength == 12
DefaultRetentionDays == 365
MaxPiiFields == 3

\* RuleEngine.hasExcessiveData
hasExcessiveData(data) ==
    \E field \in {"socialSecurity", "driversLicense", "passportNumber"} :
        HasOwn(data, field)

\* RuleEngine.minimizeData
minimizeData(data, context) ==
    IF Opt(context, "action") = Registration /\ Truthy(Get(data, "gps"))
    THEN Delete(Spread(data), "gps")
    ELSE Spread(data)

\* RuleEngine.canBeDeleted
canBeDeleted(data) ==
    ~\E field \in {"email", "phone", "userId"} : HasOwn(data, field)

\* c.retentionDays || 365
RetentionOrDefault(retentionDays) ==
    IF Truthy(retentionDays) THEN retentionDays.n ELSE DefaultRetentionDays

\* Math.max over a list of numbers; -Infinity for none
MaxOf(ns) ==
    IF ns = {} THEN [t |-> "number", infinite |-> "-Infinity"]
    ELSE Num(CHOOSE n \in ns : \A k \in ns : k <= n)

\* a retention period that is the default whatever the fields are
calculateRetentionPeriod_Default(data) == Num(DefaultRetentionDays)

\* RuleEngine.calculateRetentionPeriod
calculateRetentionPeriod(data) ==
    LET classifications == classifyData(data)
    IN MaxOf({ RetentionOrDefault(classifications[i].retentionDays) :
                  i \in 1..Len(classifications) })

\* the consent options applyLaw derives from the context (GDPR Article 6)
GdprConsentOptions(context) ==
    [purpose |-> OrElse(Opt(context, "action"), GeneralProcessing),
     marketing |-> OrElse(Opt(context, "marketingConsent"), Bool(FALSE)),
     analytics |-> Bool(Opt(context, "analyticsConsent") # Bool(FALSE)),
     personalization |-> OrElse(Opt(context, "personalizationConsent"), Bool(FALSE))]

GdprConsentContext(context) ==
    [ipAddress |-> Opt(context, "ipAddress"), userAgent |-> Opt(context, "userAgent")]

\* applyLaw, case 'GDPR', Article 6: whether a consent is recorded
NeedsConsent_Always(processedData) == TRUE
NeedsConsent_Never(processedData) == FALSE
NeedsConsent(processedData) == ~Truthy(Get(processedData, "_consent"))

\* applyLaw, case 'GDPR', Article 17: whether deletion metadata is attached
NeedsDeletionMetadata(processedData) ==
    ~Truthy(Get(processedData, "_deletionMetadata"))

\* applyLaw, case 'CCPA': whether the rights block is attached
NeedsCcpaRights(processedData) == ~Truthy(Get(processedData, "_ccpaRights"))

\* applyLaw, case 'GDPR', Article 6: the heaps once the consent is recorded
\* on the copy when it is needed
gdprConsent(H, rid, processedData, context, clock) ==
    IF NeedsConsent(processedData)
    THEN recordConsent([H EXCEPT !.records[rid] = processedData], rid,
                       GdprConsentOptions(context), GdprConsentContext(context), clock)
    ELSE [H EXCEPT !.records[rid] = processedData]

\* applyLaw, case 'GDPR', Article 5: the copy after data minimisation
gdprMinimize(data, processedData, context) ==
    IF hasExcessiveData(data) THEN minimizeData(processedData, context)
    ELSE processedData

\* applyLaw, case 'GDPR', Article 17: the copy with its deletion metadata
gdprDeletion(processedData) ==
    IF NeedsDeletionMetadata(processedData)
    THEN Put(processedData, "_deletionMetadata",
             [t |-> "deletionMetadata",
              canBeDeleted |-> canBeDeleted(processedData),
              retentionPeriod |-> calculateRetentionPeriod(processedData),
              deletionProcedure |-> "anonymize_sensitive_keep_anonymous",
              consentWithdrawalImpact |-> "stop_processing_immediately"])
    ELSE processedData

\* the actions the 'GDPR' case reports: data is the record passed and
\* minimized the copy after Article 5
gdprActions(data, minimized) ==
    (IF NeedsConsent(Spread(data)) THEN <<"gdpr_consent_recorded">> ELSE << >>)
    \o (IF hasExcessiveData(data) THEN <<"gdpr_data_minimization_applied">> ELSE << >>)
    \o (IF NeedsDeletionMetadata(minimized)
        THEN <<"gdpr_deletion_metadata_added">> ELSE << >>)

\* applyLaw, case 'GDPR', from Article 5 on, given the heaps after Article 6
gdprAfterConsent(H1, rid, data, minimized) ==
    [H |-> [H1 EXCEPT !.records[rid] = gdprDeletion(minimized)],
     actions |-> gdprActions(data, minimized)]

\* applyLaw, case 'CCPA'
ccpaRights(H, rid, processedData, clock) ==
    [H |-> [H EXCEPT !.records[rid] =
               IF NeedsCcpaRights(processedData)
               THEN Put(processedData, "_ccpaRights",
                        [t |-> "ccpaRights", optOutOfSale |-> TRUE,
                         verified |-> FALSE, lastUpdated |-> clock,
                         method |-> "user_request"])
               ELSE processedData],
     actions |-> IF NeedsCcpaRights(processedData)
                 THEN <<"ccpa_rights_metadata_added">> ELSE << >>]

\* applyLaw, case 'GDPR', given the heaps after Article 6
gdprWithConsent(H1, rid, data, context) ==
    gdprAfterConsent(H1, rid, data, gdprMinimize(data, H1.records[rid], context))

\* RuleEngine.applyLaw(data, law, context) where data is the working copy
\* with id rid (process keeps only the copy applyLaw returns): the heaps
\* after the call and the actions it reports
applyLaw(H, rid, law, context, clock) ==
    IF law = "GDPR"
    THEN gdprWithConsent(gdprConsent(H, rid, Spread(H.records[rid]), context, clock),
                         rid, H.records[rid], context)
    ELSE IF law = "CCPA"
    THEN ccpaRights(H, rid, Spread(H.records[rid]), clock)
    ELSE [H |-> [H EXCEPT !.records[rid] = Spread(H.records[rid])],
          actions |-> << >>]

\* the loop of process over the applicable laws, from law number i on, given
\* the actions of the laws before
RECURSIVE ApplyLaws(_, _, _, _, _, _, _)
RECURSIVE ApplyNextLaw(_, _, _, _, _, _, _)
ApplyLaws(H, actions, rid, laws, i, context, clock) ==
    IF i > Len(laws) THEN [H |-> H, actions |-> actions]
    ELSE ApplyNextLaw(applyLaw(H, rid, laws[i], context, clock),
                      actions, rid, laws, i, context, clock)

\* complianceMeta.actions.push(...lawResult.actions), then the next law
ApplyNextLaw(lawResult, actions, rid, laws, i, context, clock) ==
    ApplyLaws(lawResult.H, actions \o lawResult.actions, rid, laws, i + 1,
              context, clock)

\* RuleEngine.getDataRights
getDataRights(laws) ==
    LET RightsOf(law) ==
            CASE law = "GDPR" ->
                    <<"right_to_access", "right_to_rectification", "right_to_erasure",
                      "right_to_restrict_processing", "right_to_data_portability",
                      "right_to_object">>
              [] law = "CCPA" ->
                    <<"right_to_know", "right_to_delete", "right_to_opt_out",
                      "right_to_non_discrimination">>
              [] OTHER -> << >>
        RECURSIVE Collect(_)
        Collect(i) == IF i > Len(laws) THEN << >> ELSE RightsOf(laws[i]) \o Collect(i + 1)
    IN Dedup(Collect(1))

\* DataEncryptor.autoEncryptSensitiveFields, from classification number i on,
\* as the r-th user of randomBytes: the record and the draws made
RECURSIVE EncryptFrom(_, _, _, _, _, _)
EncryptFrom(encryptedData, classifications, i, key, r, clock) ==
    IF i > Len(classifications) THEN [data |-> encryptedData, r |-> r]
    ELSE LET field == classifications[i].field
             value == Get(encryptedData, field)
         IN IF /\ Truthy(classifications[i].encryptionRequired)
               /\ Truthy(value)
               /\ ~isEncrypted(value)
            THEN EncryptFrom(Put(encryptedData, field, encrypt(value, field, key, r, clock)),
                             classifications, i + 1, key, r + EncryptDraws(value), clock)
            ELSE EncryptFrom(encryptedData, classifications, i + 1, key, r, clock)

\* an autoEncryptSensitiveFields that drops a field it could not encrypt
autoEncryptSensitiveFields_DropFailed(data, classifications, key, r, clock) ==
    LET out == EncryptFrom(Spread(data), classifications, 1, key, r, clock)
    IN [out EXCEPT !.data =
           [props |-> SelectSeq(@.props, LAMBDA p : ~StringifyThrows(p.v))]]

autoEncryptSensitiveFields(data, classifications, key, r, clock) ==
    EncryptFrom(Spread(data), classifications, 1, key, r, clock)

\* value.length
LengthOf(value) ==
    CASE value.t = "string" -> Num(Len(value.s))
      [] value.t = "array"  -> Num(Len(value.xs))
      [] OTHER -> Undefined

\* a < b for a that may be undefined (undefined < n is false)
LessThan(a, n) == a.t = "number" /\ a.n < n

\* RuleEngine.checkForWarnings
checkForWarnings(data) ==
    LET password == Get(data, "password")
        piiCount == Len(SelectSeq(classifyData(data),
                                  LAMBDA c : c.sensitivity \in {"high", "critical"}))
    IN (IF Truthy(password) /\ LessThan(LengthOf(password), MinPasswordLength)
        THEN <<[level |-> "high", field |-> "password",
                recommendation |-> "enforce_stronger_password_policy"]>>
        ELSE << >>)
       \o (IF ~Truthy(Get(data, "_complianceConsent"))
           THEN <<[level |-> "medium", field |-> "_complianceConsent",
                   recommendation |-> "capture_explicit_consent_with_timestamp"]>>
           ELSE << >>)
       \o (IF piiCount > MaxPiiFields
           THEN <<[level |-> "medium", field |-> "",
                   recommendation |-> "review_data_collection_practices"]>>
           ELSE << >>)

\* processedData !== data: autoEncryptSensitiveFields returns the object its
\* spread created, which is never the object the caller passed
IsAnotherObject(processedData, data) == TRUE

\* process, lines 43-66: the metadata, the hidden property and the result
processFinish(dst, lawed, classifications, enc, complianceMeta) ==
    [H |-> [lawed.H EXCEPT !.records[dst] =
               DefineHidden(enc.data, "_compliance",
                            [t |-> "compliance",
                             meta |-> complianceMeta,
                             classifications |-> classifications,
                             processingTime |-> 0])],
     r |-> enc.r,
     result |-> [data |-> dst,
                 compliance |-> complianceMeta,
                 warnings |-> checkForWarnings(
                     DefineHidden(enc.data, "_compliance",
                                  [t |-> "compliance",
                                   meta |-> complianceMeta,
                                   classifications |-> classifications,
                                   processingTime |-> 0])),
                 processingTime |-> 0]]

\* process, lines 37-47: the compliance metadata once encryption is done
processEncrypted(H, src, dst, cfg, clock, applicableLaws, lawed, classifications, enc) ==
    processFinish(dst, lawed, classifications, enc,
        [processedAt |-> clock,
         applicableLaws |-> applicableLaws,
         actions |-> lawed.actions
                     \o (IF cfg.autoEncrypt # FALSE
                            /\ IsAnotherObject(enc.data, H.records[src])
                         THEN <<"sensitive_fields_encrypted">> ELSE << >>),
         dataRights |-> getDataRights(applicableLaws)])

\* process, lines 33-41: automatic encryption of the classified copy
processClassified(H, src, dst, cfg, key, r, clock, applicableLaws, lawed, cls) ==
    processEncrypted(H, src, dst, cfg, clock, applicableLaws, lawed, cls,
        IF cfg.autoEncrypt # FALSE
        THEN autoEncryptSensitiveFields(lawed.H.records[dst], cls,
                                        key, r, clock)
        ELSE [data |-> lawed.H.records[dst], r |-> r])

\* process, lines 24-34: the laws applied in turn to the copy, then classified
processLaws(H, src, dst, context, cfg, key, r, clock, applicableLaws, lawed) ==
    processClassified(H, src, dst, cfg, key, r, clock, applicableLaws, lawed,
                      classifyData(lawed.H.records[dst]))

\* process, lines 17-31: the shallow copy, with id dst, and the laws
processCopy(H, src, dst, context, cfg, key, r, clock, applicableLaws) ==
    processLaws(H, src, dst, context, cfg, key, r, clock, applicableLaws,
        ApplyLaws([H EXCEPT !.records = Append(@, Spread(H.records[src]))],
                  << >>, dst, applicableLaws, 1, context, clock))

\* a process that works on the caller's object instead of a copy of it
process_InPlace(H, src, context, cfg, key, r, clock) ==
    LET p == processCopy(H, src, Len(H.records) + 1, context, cfg, key, r, clock,
                         determineApplicableLaws(context))
    IN [p EXCEPT !.H.records[src] = p.H.records[Len(p.H.records)]]

\* RuleEngine.process(data, context) for the record with id src: the heaps
\* after the call (the returned record is the last of records), the draws
\* made and the result
process(H, src, context, cfg, key, r, clock) ==
    processCopy(H, src, Len(H.records) + 1, context, cfg, key, r, clock,
                determineApplicableLaws(context))

-----------------------------------------------------------------------------
(* The rule engine driven by a caller: a record is drawn, and process is    *)
(* called on it and on the records earlier calls returned                   *)

MaxRecords == 3

WeakPassword   == Str(<<"w","e","a","k","p","a","s","s">>)
StrongPassword == Str(<<"S","t","r","0","n","g","P","a","s","s","1","2">>)

\* the values a caller's record may hold for each field; Undefined: no field
FieldChoices(fieldName) ==
    CASE fieldName = "email"          -> {Undefined, Str(<<"a","@","b">>)}
      [] fieldName = "password"       -> {Undefined, WeakPassword, StrongPassword, Str(<< >>)}
      [] fieldName = "gps"            -> {Undefined, Str(<<"1",",","2">>)}
      [] fieldName = "socialSecurity" -> {Undefined, Str(<<"1","2","3">>)}
      [] fieldName = "userEmail"      -> {Undefined, Str(<<"c","@","d">>)}

\* an object literal: the given properties, those without a value left out
Literal(entries) ==
    [props |-> SelectSeq([i \in 1..Len(entries) |->
                             [k |-> entries[i][1], v |-> entries[i][2], e |-> TRUE]],
                         LAMBDA p : p.v # Undefined)]

CallerRecords ==
    { Literal(<< <<"email", e>>, <<"password", p>>, <<"gps", g>>,
                 <<"socialSecurity", s>>, <<"userEmail", u>> >>) :
        e \in FieldChoices("email"), p \in FieldChoices("password"),
        g \in FieldChoices("gps"), s \in FieldChoices("socialSecurity"),
        u \in FieldChoices("userEmail") }

ProcessContexts ==
    { << >>,
      [country |-> Str(<<"U","S">>)],
      [country |-> Str(<<"c","a">>), action |-> Registration],
      [country |-> Str(<<"B","R">>), marketingConsent |-> Bool(TRUE),
       analyticsConsent |-> Bool(FALSE)] }

Init ==
    /\ config \in {[autoEncrypt |-> TRUE], [autoEncrypt |-> FALSE]}
    /\ encryptionKey \in {"key-A"}
    /\ rng = 0
    /\ now = 0
    /\ \E R \in CallerRecords : records = <<R>>
    /\ containers = << >>
    /\ consents = << >>
    /\ prefs = << >>
    /\ withdrawals = << >>
    /\ lastOp = NoOp
    /\ input = Undefined
    /\ box = [state |-> "none"]
    /\ guard = NoGuard
    /\ calls = << >>

\* the caller processes one of the records it holds; previous remembers what
\* the call before this one returned, and for which context
Process ==
    /\ Len(records) < MaxRecords
    /\ \E src \in 1..Len(records), context \in ProcessContexts :
         \E p \in {process(TheHeap, src, context, config, encryptionKey, rng, now)} :
            /\ SetHeap(p.H)
            /\ rng' = p.r
            /\ lastOp' = [op |-> "process", src |-> src, context |-> context,
                          threw |-> FALSE, result |-> p.result,
                          previous |-> IF lastOp.op = "process"
                                       THEN [op |-> "process",
                                             data |-> lastOp.result.data,
                                             context |-> lastOp.context]
                                       ELSE NoOp]
    /\ now' = now + 1
    /\ UNCHANGED <<config, encryptionKey, input, box, guard, calls>>

Next == Process

Spec == Init /\ [][Next]_vars

-----------------------------------------------------------------------------
(* Claims about process *)

\* the fields of a record that hold an EncryptedField
EncryptedFields(rec) == { k \in EnumerableKeys(rec) : isEncrypted(Get(rec, k)) }

\* the last step was a call of process that passed the record the call before
\* it returned, with the same context
ProcessedTwice ==
    /\ lastOp.op = "process"
    /\ lastOp.previous.op = "process"
    /\ lastOp.previous.data = lastOp.src
    /\ lastOp.previous.context = lastOp.context

\* C1: process is idempotent under a second application.  When process(R, C)
\* returned D1 and the next call is process(D1, C) returning D2, then D2's
\* consent history is as long as D1's was, D2 has the encrypted fields D1 had
\* with the very same ciphertexts (none is encrypted again), and D2 carries
\* the deletion-metadata block and the CCPA-rights block D1 carried, the
\* deletion metadata being present.
C1_SecondProcessIdempotent ==
    [][ (/\ lastOp.op = "process"
         /\ Called("process")
         /\ lastOp'.src = lastOp.result.data
         /\ lastOp'.context = lastOp.context)
        => LET D1 == records[lastOp.result.data]
               D2 == records'[lastOp'.result.data]
           IN /\ Truthy(Get(D1, "_consent")) /\ Truthy(Get(D2, "_consent"))
              /\ Len(containers'[Get(D2, "_consent").id].history)
                   = Len(containers[Get(D1, "_consent").id].history)
              /\ EncryptedFields(D2) = EncryptedFields(D1)
              /\ \A k \in EncryptedFields(D1) : Get(D2, k) = Get(D1, k)
              /\ HasOwn(D2, "_deletionMetadata")
              /\ Get(D2, "_deletionMetadata") = Get(D1, "_deletionMetadata")
              /\ Get(D2, "_ccpaRights") = Get(D1, "_ccpaRights")
      ]_vars

\* a second application on a record with encrypted fields, a consent and a
\* CCPA-rights block
C1_Witness ==
    /\ ProcessedTwice
    /\ EncryptedFields(records[lastOp.src]) # {}
    /\ HasOwn(records[lastOp.src], "_ccpaRights")
    /\ HasOwn(records[lastOp.result.data], "_ccpaRights")

\* C2: process leaves the caller's record unchanged.  A call of process
\* changes no record the caller holds, the record it passed included: each
\* keeps its fields and values, and the consent object such a record refers
\* to reads as before; the only new record is the returned one.
C2_CallerRecordUnchanged ==
    [][ Called("process")
        => /\ Len(records') = Len(records) + 1
           /\ lastOp'.result.data = Len(records')
           /\ \A rid \in 1..Len(records) : records'[rid] = records[rid]
           /\ \A kid \in 1..Len(containers) :
                 ContainerView(TheHeap', kid) = ContainerView(TheHeap, kid)
      ]_vars

\* a call that recorded a consent, removed gps and encrypted the password in
\* the returned record, while the record passed has none of that
C2_Witness ==
    /\ lastOp.op = "process"
    /\ LET R == records[lastOp.src]
           D == records[lastOp.result.data]
       IN /\ HasOwn(R, "gps") /\ ~HasOwn(D, "gps")
          /\ ~HasOwn(R, "_consent") /\ HasOwn(D, "_consent")
          /\ ~HasOwn(R, "_deletionMetadata") /\ HasOwn(D, "_deletionMetadata")
          /\ ~HasOwn(R, "_compliance") /\ HasOwn(D, "_compliance")
          /\ Get(R, "password") = WeakPassword /\ isEncrypted(Get(D, "password"))

\* the warnings hold the high-severity warning about the password
HighPasswordWarning(warnings) ==
    \E i \in 1..Len(warnings) :
        warnings[i].level = "high" /\ warnings[i].field = "password"

\* the record holds a password of fewer than 12 characters
ShortPassword(rec) ==
    Get(rec, "password").t = "string"
    /\ Len(Get(rec, "password").s) < MinPasswordLength

\* C6: process(R, C) returns the high-severity password warning exactly when
\* R holds a password shorter than 12 characters, whatever the configuration.
C6_WeakPasswordWarned ==
    lastOp.op = "process"
    => (HighPasswordWarning(lastOp.result.warnings)
          <=> ShortPassword(records[lastOp.src]))

\* the warnings hold the medium-severity warning about the missing consent
MissingConsentWarning(warnings) ==
    \E i \in 1..Len(warnings) :
        warnings[i].level = "medium" /\ warnings[i].field = "_complianceConsent"

\* C7: the warnings of process(R, C) hold the missing-consent warning exactly
\* when the returned record has no recorded consent.
C7_WarnedOnlyWithoutConsent ==
    lastOp.op = "process"
    => (MissingConsentWarning(lastOp.result.warnings)
          <=> ~Truthy(Get(records[lastOp.result.data], "_consent")))

-----------------------------------------------------------------------------
(* Claims about hasValidConsent, checked under SpecConsent *)

\* the current consent of record rid, read out; Undefined when it has none
CurrentConsent(rid) ==
    IF Truthy(Get(records[rid], "_consent"))
    THEN ContainerNow(ConsentOf(rid)).current
    ELSE Undefined

\* specific, informed and unambiguous all true, a non-empty purpose, a
\* recorded timestamp and canWithdraw true
PassesCompliance(consent) ==
    /\ consent.specific /\ consent.informed /\ consent.unambiguous
    /\ consent.purpose.t = "string" /\ consent.purpose.s # << >>
    /\ consent.recordedAt \in Nat
    /\ consent.canWithdraw

\* the preference flag a processing type stands for
FlagOf(processingType) ==
    CASE processingType = "third_party_sharing"    -> "thirdPartySharing"
      [] processingType = "international_transfer" -> "internationalTransfer"
      [] OTHER -> processingType

\* C11: hasValidConsent(record, T) is false for every T when the record has
\* no current consent or the current consent fails the compliance test; when
\* it passes, the answer is true for 'necessary' whatever the preferences
\* hold, and for any other T it is true exactly when the preference for T is
\* true.
C11_HasValidConsent ==
    lastOp.op = "hasValidConsent"
    => LET consent == CurrentConsent(lastOp.rid)
           T == lastOp.processingType
       IN IF consent = Undefined THEN lastOp.result = FALSE
          ELSE IF ~PassesCompliance(consent) THEN lastOp.result = FALSE
          ELSE IF T = "necessary" THEN lastOp.result = TRUE
          ELSE lastOp.result
                 = (FlagOf(T) \in DOMAIN consent.preferences
                    /\ consent.preferences[FlagOf(T)] = Bool(TRUE))

\* a question about a preference that is true on a consent that fails the
\* compliance test
C11_Witness ==
    /\ lastOp.op = "hasValidConsent"
    /\ CurrentConsent(lastOp.rid) # Undefined
    /\ ~PassesCompliance(CurrentConsent(lastOp.rid))
    /\ lastOp.processingType = "analytics"
    /\ CurrentConsent(lastOp.rid).preferences["analytics"] = Bool(TRUE)
    /\ lastOp.result = FALSE

-----------------------------------------------------------------------------
(* Construction of the encryption engine: new DataEncryptor(config) *)

\* DataEncryptor.generateTemporaryKey, as the r-th user of randomBytes
generateTemporaryKey(r) == [t |-> "hexText", text |-> HexEncode(RandomBytes(r, KeyLength))]

\* DataEncryptor.constructor: this.encryptionKey, given the configuration and
\* the value of the environment variable DATAGUARD_ENCRYPTION_KEY
ResolveEncryptionKey(cfg, environmentKey, r) ==
    OrElse(OrElse(Opt(cfg, "encryptionKey"), environmentKey), generateTemporaryKey(r))

\* whether the constructor drew a temporary key
UsesTemporaryKey(cfg, environmentKey) ==
    ~Truthy(Opt(cfg, "encryptionKey")) /\ ~Truthy(environmentKey)

Production  == Str(<<"p","r","o","d","u","c","t","i","o","n">>)
Development == Str(<<"d","e","v","e","l","o","p","m","e","n","t">>)

\* the configurations an engine is constructed with: env and encryptionKey
\* each given or left out
EngineConfigs ==
    { [k \in { x \in {"env", "encryptionKey"} : c[x] # Undefined } |-> c[k]] :
        c \in [env : {Undefined, Production, Development},
               encryptionKey : {Undefined, Str(<< >>), Str(<<"k","1">>)}] }

\* the values of process.env.DATAGUARD_ENCRYPTION_KEY: unset, empty, set
EnvironmentKeys == {Undefined, Str(<< >>), Str(<<"k","2">>)}

\* before construction: config is the caller's argument
InitBoot ==
    /\ config \in EngineConfigs
    /\ encryptionKey = Undefined
    /\ rng = 0
    /\ now = 0
    /\ records = << >>
    /\ containers = << >>
    /\ consents = << >>
    /\ prefs = << >>
    /\ withdrawals = << >>
    /\ lastOp = NoOp
    /\ input \in [value : {Str(<<"a">>), Num(7), Null}, field : EncFieldNames,
                  environmentKey : EnvironmentKeys]
    /\ box = [state |-> "none"]
    /\ guard = NoGuard
    /\ calls = << >>

\* the defaults the constructor spreads the configuration over
EncryptorDefaults ==
    [algorithm |-> "aes-256-gcm", keyLength |-> KeyLength, ivLength |-> IvLength,
     saltLength |-> SaltLength]

\* new DataEncryptor(config)
Construct ==
    /\ lastOp.op = "none"
    /\ config' = [k \in DOMAIN EncryptorDefaults \cup DOMAIN config |->
                     IF k \in DOMAIN config THEN config[k] ELSE EncryptorDefaults[k]]
    /\ encryptionKey' = ResolveEncryptionKey(config, input.environmentKey, rng)
    /\ rng' = IF UsesTemporaryKey(config, input.environmentKey) THEN rng + 1 ELSE rng
    /\ lastOp' = [op |-> "construct", threw |-> FALSE,
                  temporaryKey |-> UsesTemporaryKey(config, input.environmentKey)]
    /\ UNCHANGED <<now, heap, input, box, guard, calls>>

\* the constructed engine encrypts the caller's value
EncryptConstructed == lastOp.op = "construct" /\ Encrypt

NextBoot == Construct \/ EncryptConstructed

SpecBoot == InitBoot /\ [][NextBoot]_vars

\* C12: in a production configuration with no master secret, neither from
\* the caller nor from the environment variable, constructing the engine
\* fails and no temporary key is generated; a temporary key is generated
\* only outside production.
C12_NoTemporaryKeyInProduction ==
    (lastOp.op = "construct" /\ Opt(config, "env") = Production)
        => /\ ~lastOp.temporaryKey
           /\ (Opt(config, "encryptionKey") = Undefined
               /\ input.environmentKey = Undefined) => lastOp.threw

-----------------------------------------------------------------------------
(* The facade: DataGuard.makeCompliant *)

\* a caller's record, with id rid, as a value passed to makeCompliant
RecordValue(rid) == [t |-> "object", id |-> rid]

\* makeCompliant: if (!data || typeof data !== 'object')
makeCompliantRejects_Never(data) == FALSE
makeCompliantRejects(data) == ~Truthy(data) \/ ~TypeofObject(data)

\* what a caller may pass that is not a record
NonRecords ==
    {Null, Undefined, Str(<< >>), Str(<<"x">>), Num(0), Num(5), Bool(TRUE), Bool(FALSE)}

CallerRecordsFacade ==
    { EmptyObject,
      Literal(<< <<"email", Str(<<"a","@","b">>)>>, <<"password", WeakPassword>> >>) }

InitFacade ==
    /\ config \in {[autoEncrypt |-> TRUE], [autoEncrypt |-> FALSE]}
    /\ encryptionKey \in {"key-A"}
    /\ rng = 0
    /\ now = 0
    /\ \E R \in CallerRecordsFacade : records = <<R>>
    /\ containers = << >>
    /\ consents = << >>
    /\ prefs = << >>
    /\ withdrawals = << >>
    /\ lastOp = NoOp
    /\ input = Undefined
    /\ box = [state |-> "none"]
    /\ guard = NoGuard
    /\ calls = << >>

\* DataGuard.makeCompliant(data, context): the validation, then process
MakeCompliant ==
    \E data \in NonRecords \cup { RecordValue(rid) : rid \in 1..Len(records) },
       context \in ProcessContexts :
        IF makeCompliantRejects(data)
        THEN /\ lastOp' = [op |-> "makeCompliant", data |-> data, threw |-> TRUE,
                           error |-> "Data must be a non-null object"]
             /\ UNCHANGED <<config, encryptionKey, rng, now, heap, input, box, guard, calls>>
        ELSE IF data.t # "object"
        THEN \* the validation let a value through that is no record (none
             \* of NonRecords gets here): the call goes on to process
             /\ lastOp' = [op |-> "makeCompliant", data |-> data, threw |-> FALSE,
                           context |-> context]
             /\ UNCHANGED <<config, encryptionKey, rng, now, heap, input, box, guard, calls>>
        ELSE /\ Len(records) < MaxRecords
             /\ \E p \in {process(TheHeap, data.id, context, config, encryptionKey,
                                  rng, now)} :
                  /\ SetHeap(p.H)
                  /\ rng' = p.r
                  /\ lastOp' = [op |-> "makeCompliant", data |-> data, threw |-> FALSE,
                                context |-> context,
                                result |-> [success |-> TRUE,
                                            data |-> p.result.data,
                                            compliance |-> p.result.compliance,
                                            processingTime |-> 0,
                                            warnings |-> p.result.warnings]]
             /\ now' = now + 1
             /\ UNCHANGED <<config, encryptionKey, input, box, guard, calls>>

NextFacade == MakeCompliant

SpecFacade == InitFacade /\ [][NextFacade]_vars

\* the value is null, undefined or not an object
NotAnObject(data) ==
    data \in {Null, Undefined} \/ data.t \in {"string", "number", "boolean", "bigint"}

\* C13: makeCompliant called with a record that is null, undefined or not an
\* object fails with 'Data must be a non-null object'; that call applies no
\* law, classifies and encrypts nothing (no record, consent object, draw or
\* clock reading changes) and returns no result.
C13_InvalidDataRejected ==
    [][ (lastOp'.op = "makeCompliant" /\ lastOp' # lastOp /\ NotAnObject(lastOp'.data))
        => /\ lastOp'.threw
           /\ lastOp'.error = "Data must be a non-null object"
           /\ "result" \notin DOMAIN lastOp'
           /\ UNCHANGED <<heap, rng, now>>
      ]_vars

\* a rejected call on an engine that has already processed a record
C13_Witness ==
    /\ lastOp.op = "makeCompliant"
    /\ lastOp.threw
    /\ lastOp.data = Str(<<"x">>)
    /\ Len(records) > 1

-----------------------------------------------------------------------------
(* Deletion requests: RuleEngine.handleDeletion *)

\* the checklist every regulation starts from
BaseDeletionActions ==
    <<"verify_user_identity", "identify_all_data_locations",
      "assess_legal_retention_requirements">>

\* RuleEngine.handleDeletion(userId, regulation)
handleDeletion(userId, regulation) ==
    [actions |->
         BaseDeletionActions
         \o (CASE regulation = "GDPR" ->
                    <<"anonymize_personal_data", "retain_anonymous_transactions_7_years",
                      "notify_third_parties_of_deletion", "provide_deletion_confirmation">>
               [] regulation = "CCPA" ->
                    <<"delete_personal_information", "maintain_service_after_deletion",
                      "verify_deletion_completion", "provide_verification_method">>
               [] OTHER -> << >>),
     estimatedCompletion |-> Str(<<"3","0"," ","d","a","y","s">>),
     userNotificationRequired |-> Bool(TRUE),
     legalReviewRequired |-> Bool(regulation = "GDPR")]

UserIds == {"user123", "user456"}

Regulations == {"GDPR", "CCPA", "LGPD", "PIPEDA"}

\* the caller asks for the deletion checklist of a user
HandleDeletion ==
    /\ \E userId \in UserIds, regulation \in Regulations :
         lastOp' = [op |-> "handleDeletion", userId |-> userId,
                    regulation |-> regulation, threw |-> FALSE,
                    result |-> handleDeletion(userId, regulation)]
    /\ UNCHANGED <<config, encryptionKey, rng, now, heap, input, box, guard, calls>>

\* a caller that has records processed and then asks for deletion checklists
NextDeletion ==
    \/ lastOp.op # "handleDeletion" /\ MakeCompliant
    \/ HandleDeletion

SpecDeletion == InitFacade /\ [][NextDeletion]_vars

\* the steps a regulation adds to the base checklist
RegulationSteps(regulation) ==
    CASE regulation = "GDPR" ->
            <<"anonymize_personal_data", "retain_anonymous_transactions_7_years",
              "notify_third_parties_of_deletion", "provide_deletion_confirmation">>
      [] regulation = "CCPA" ->
            <<"delete_personal_information", "maintain_service_after_deletion",
              "verify_deletion_completion", "provide_verification_method">>
      [] OTHER -> << >>

\* this step is a call of handleDeletion
DeletionCalled == lastOp'.op = "handleDeletion" /\ lastOp' # lastOp

\* C14: handleDeletion returns, for every userId, a non-empty action list and
\* an estimatedCompletionDays equal to 30; the list is the base checklist
\* followed by the regulation's own steps, and the call changes no record and
\* no engine state.
C14_DeletionChecklist ==
    [][ DeletionCalled
        => /\ lastOp'.result.actions # << >>
           /\ "estimatedCompletionDays" \in DOMAIN lastOp'.result
           /\ Opt(lastOp'.result, "estimatedCompletionDays") = Num(30)
           /\ lastOp'.result.actions
                = BaseDeletionActions \o RegulationSteps(lastOp'.regulation)
           /\ UNCHANGED <<config, encryptionKey, rng, now, heap>>
      ]_vars

\* what holds of the code: the checklist and the frame as claimed, the
\* estimate being the text '30 days' under the name estimatedCompletion
DeletionChecklistAsCoded ==
    [][ DeletionCalled
        => /\ lastOp'.result.actions # << >>
           /\ lastOp'.result.estimatedCompletion = Str(<<"3","0"," ","d","a","y","s">>)
           /\ lastOp'.result.actions
                = BaseDeletionActions \o RegulationSteps(lastOp'.regulation)
           /\ UNCHANGED <<config, encryptionKey, rng, now, heap>>
      ]_vars

-----------------------------------------------------------------------------
(* The field classifier on its own: classifyField(fieldName, value) *)

\* the field names the classifier is asked about: the table's names, names
\* that match one or several patterns, in either case, names that match
\* none, and names every object inherits
ClassifiedNames ==
    TableNames
    \cup {"Email", "userEmail", "emailPassword", "mobile", "homePhone", "dobPhone",
          "birthYear", "gpsDob", "coordinates", "passLocation", "pwd"}
    \cup {"name", "socialSecurity", "secret"}
    \cup ObjectPrototypeNames

ClassifiedValues == {Str(<<"a","@","b">>), Num(7), Null}

InitClassifyField ==
    /\ InitEngine
    /\ encryptionKey \in {"key-A"}
    /\ input \in [fieldName : ClassifiedNames, value : ClassifiedValues]
    /\ box = [state |-> "none"]
    /\ guard = NoGuard
    /\ calls = << >>

\* the caller asks for the classification of one field
ClassifyField ==
    /\ lastOp' = [op |-> "classifyField", fieldName |-> input.fieldName,
                  value |-> input.value, threw |-> FALSE,
                  result |-> classifyField(input.fieldName)]
    /\ UNCHANGED <<config, encryptionKey, rng, now, heap, input, box, guard, calls>>

NextClassifyField == ClassifyField

SpecClassifyField == InitClassifyField /\ [][NextClassifyField]_vars

ClassificationTypes ==
    {"direct_identifier", "demographic", "geolocation", "financial", "credential",
     "behavioral", "general"}

Sensitivities == {"low", "medium", "high", "critical"}

\* the substring patterns in the order they are tried, each with the type and
\* the sensitivity it stands for
NamePatterns ==
    << [parts |-> {<<"e","m","a","i","l">>},
        type |-> "direct_identifier", sensitivity |-> "high"],
       [parts |-> {<<"p","h","o","n","e">>, <<"m","o","b","i","l","e">>},
        type |-> "direct_identifier", sensitivity |-> "high"],
       [parts |-> {<<"b","i","r","t","h">>, <<"d","o","b">>},
        type |-> "demographic", sensitivity |-> "medium"],
       [parts |-> {<<"l","o","c","a","t","i","o","n">>, <<"g","p","s">>,
                   <<"c","o","o","r","d">>},
        type |-> "geolocation", sensitivity |-> "high"],
       [parts |-> {<<"p","a","s","s">>, <<"p","w","d">>},
        type |-> "credential", sensitivity |-> "critical"] >>

\* the pattern numbers that match the lowercased name
MatchingPatterns(fieldName) ==
    { i \in 1..Len(NamePatterns) :
        \E part \in NamePatterns[i].parts :
            Includes(ToLowerCase(Spelling(fieldName)), part) }

\* C15: classify(fieldName, value) is the table's entry when fieldName equals
\* a table name; otherwise the type and sensitivity of the first pattern, in
\* the order email, phone/mobile, birth/dob, location/gps/coord, pass/pwd,
\* that the lowercased name contains; otherwise general/low.  Every name so
\* gets a type and a sensitivity from the two enumerations.
C15_Classify ==
    lastOp.op = "classifyField"
    => LET c == lastOp.result
           matching == MatchingPatterns(lastOp.fieldName)
           first == CHOOSE i \in matching : \A j \in matching : i <= j
       IN /\ c.type \in ClassificationTypes
          /\ c.sensitivity \in Sensitivities
          /\ IF lastOp.fieldName \in TableNames
             THEN c = fieldClassifications(lastOp.fieldName)
             ELSE IF matching # {}
             THEN c.type = NamePatterns[first].type
                  /\ c.sensitivity = NamePatterns[first].sensitivity
             ELSE c.type = "general" /\ c.sensitivity = "low"

\* what holds of the code: the claim for every name but those an object
\* inherits, for which classifyField returns the inherited function
ClassifyOwnNames ==
    (lastOp.op = "classifyField" /\ lastOp.fieldName \notin ObjectPrototypeNames)
    => LET c == lastOp.result
           matching == MatchingPatterns(lastOp.fieldName)
           first == CHOOSE i \in matching : \A j \in matching : i <= j
       IN /\ c.type \in ClassificationTypes
          /\ c.sensitivity \in Sensitivities
          /\ IF lastOp.fieldName \in TableNames
             THEN c = fieldClassifications(lastOp.fieldName)
             ELSE IF matching # {}
             THEN c.type = NamePatterns[first].type
                  /\ c.sensitivity = NamePatterns[first].sensitivity
             ELSE c.type = "general" /\ c.sensitivity = "low"

-----------------------------------------------------------------------------
(* The classifier on whole records: classifyData(data) *)

MaxFields == 2

ClassifiedFieldNames == {"email", "phone", "interests", "secret", "constructor"}

ClassifiedFieldValues == {Str(<<"a","@","b">>), Num(0), Null, Undefined}

\* the records of at most n fields, each field present with one of the
\* values, null and undefined included
RecordsUpTo(n) ==
    { [props |-> [i \in 1..Len(names) |-> [k |-> names[i], v |-> values[i], e |-> TRUE]]] :
        <<names, values>> \in
            UNION { { nv \in [1..m -> ClassifiedFieldNames] \X [1..m -> ClassifiedFieldValues] :
                        \A i, j \in 1..m : i # j => nv[1][i] # nv[1][j] } : m \in 0..n } }

InitClassifyData ==
    /\ config = [autoEncrypt |-> TRUE]
    /\ encryptionKey \in {"key-A"}
    /\ rng = 0
    /\ now = 0
    /\ \E R \in RecordsUpTo(MaxFields) : records = <<R>>
    /\ containers = << >>
    /\ consents = << >>
    /\ prefs = << >>
    /\ withdrawals = << >>
    /\ lastOp = NoOp
    /\ input = Undefined
    /\ box = [state |-> "none"]
    /\ guard = NoGuard
    /\ calls = << >>

\* the caller asks for the classifications of a record
ClassifyData ==
    /\ \E rid \in 1..Len(records) :
         lastOp' = [op |-> "classifyData", rid |-> rid, threw |-> FALSE,
                    result |-> classifyData(records[rid])]
    /\ UNCHANGED <<config, encryptionKey, rng, now, heap, input, box, guard, calls>>

NextClassifyData == ClassifyData

SpecClassifyData == InitClassifyData /\ [][NextClassifyData]_vars

\* the fields of a record whose value is neither null nor undefined, in order
PresentFields(data) ==
    SelectSeq(Entries(data), LAMBDA p : p.v # Null /\ p.v # Undefined)

\* C16: classifyRecord(record) returns exactly one classification for each
\* field whose value is neither null nor undefined and none for the others,
\* in the record's own field order, and does not change the record.
C16_ClassifyRecord ==
    [][ (lastOp'.op = "classifyData" /\ lastOp' # lastOp)
        => \A rid \in 1..Len(records) :
              lastOp'.rid = rid
              => /\ Len(lastOp'.result) = Len(PresentFields(records[rid]))
                 /\ \A i \in 1..Len(lastOp'.result) :
                       lastOp'.result[i].field = PresentFields(records[rid])[i].k
                 /\ records' = records
      ]_vars

\* a record with a present field after a null or undefined one, classified
C16_Witness ==
    /\ lastOp.op = "classifyData"
    /\ Len(records[lastOp.rid].props) = 2
    /\ records[lastOp.rid].props[1].v \in {Null, Undefined}
    /\ Len(lastOp.result) = 1
    /\ lastOp.result[1].field = records[lastOp.rid].props[2].k

-----------------------------------------------------------------------------
(* Automatic encryption on its own: autoEncryptSensitiveFields *)

\* an EncryptedField a record already holds when the caller passes it
StoredEncryptedField == encrypt(Str(<<"z">>), "email", "key-A", 90, 0)

\* the values a field of the caller's record may hold; Undefined: no field
AutoEncryptValues ==
    {Undefined, Str(<<"a">>), Str(<< >>), Num(7), Num(0), Bool(FALSE), Null,
     StoredEncryptedField}

AutoEncryptRecords ==
    { Literal(<< <<"email", e>>, <<"secret", p>> >>) :
        e \in AutoEncryptValues, p \in AutoEncryptValues }

\* the classifications the caller passes: one per field, flagged or not
AutoEncryptClassifications ==
    { << [field |-> "email", encryptionRequired |-> Bool(e)],
         [field |-> "secret", encryptionRequired |-> Bool(p)] >> :
        e \in BOOLEAN, p \in BOOLEAN }

InitAutoEncrypt ==
    /\ config = [autoEncrypt |-> TRUE]
    /\ encryptionKey \in {"key-A"}
    /\ rng = 0
    /\ now = 0
    /\ \E R \in AutoEncryptRecords : records = <<R>>
    /\ containers = << >>
    /\ consents = << >>
    /\ prefs = << >>
    /\ withdrawals = << >>
    /\ lastOp = NoOp
    /\ input \in AutoEncryptClassifications
    /\ box = [state |-> "none"]
    /\ guard = NoGuard
    /\ calls = << >>

\* the caller has the fields of one of its records encrypted and keeps the
\* result; previous remembers the record the call before returned
AutoEncrypt ==
    /\ Len(records) < MaxRecords
    /\ \E src \in 1..Len(records) :
         \E out \in {autoEncryptSensitiveFields(records[src], input, encryptionKey,
                                                rng, now)} :
            /\ records' = Append(records, out.data)
            /\ rng' = out.r
            /\ lastOp' = [op |-> "autoEncrypt", src |-> src, dst |-> Len(records) + 1,
                          threw |-> FALSE,
                          previous |-> IF lastOp.op = "autoEncrypt" THEN lastOp.dst
                                       ELSE 0]
    /\ now' = now + 1
    /\ UNCHANGED <<config, encryptionKey, containers, consents, prefs, withdrawals,
                   input, box, guard, calls>>

NextAutoEncrypt == AutoEncrypt

SpecAutoEncrypt == InitAutoEncrypt /\ [][NextAutoEncrypt]_vars

\* the classifications flag the field with encryptionRequired = true
Flagged(classifications, field) ==
    \E i \in 1..Len(classifications) :
        /\ classifications[i].field = field
        /\ classifications[i].encryptionRequired = Bool(TRUE)

\* C17: autoEncryptSensitiveFields returns a record in which every flagged
\* field that holds a value (not null) which was not already an
\* EncryptedField is replaced by its encrypted form, and every other field
\* has exactly the value it had; applied to its own output with the same
\* classifications it changes nothing.
C17_AutoEncrypt ==
    lastOp.op = "autoEncrypt"
    => LET R == records[lastOp.src]
           D == records[lastOp.dst]
       IN /\ EnumerableKeys(D) = EnumerableKeys(R)
          /\ \A k \in EnumerableKeys(R) :
                IF Flagged(input, k) /\ Get(R, k) # Null /\ ~isEncrypted(Get(R, k))
                THEN isEncrypted(Get(D, k)) /\ Get(D, k).field = k
                ELSE Get(D, k) = Get(R, k)
          /\ lastOp.previous = lastOp.src => D = R

\* what holds of the code: the same, for flagged values that are truthy; a
\* flagged '', 0 or false stays as it is
AutoEncryptTruthyOnly ==
    lastOp.op = "autoEncrypt"
    => LET R == records[lastOp.src]
           D == records[lastOp.dst]
       IN /\ EnumerableKeys(D) = EnumerableKeys(R)
          /\ \A k \in EnumerableKeys(R) :
                IF Flagged(input, k) /\ Truthy(Get(R, k)) /\ ~isEncrypted(Get(R, k))
                THEN isEncrypted(Get(D, k)) /\ Get(D, k).field = k
                ELSE Get(D, k) = Get(R, k)
          /\ lastOp.previous = lastOp.src => D = R

-----------------------------------------------------------------------------
(* process on records that hold values encrypt cannot serialize *)

\* records with a field flagged for encryption whose value JSON.stringify
\* throws on, next to fields that encrypt as usual
UnserializableRecords ==
    { Literal(<< <<"email", BigInt(5)>>, <<"password", WeakPassword>> >>),
      Literal(<< <<"email", Str(<<"a","@","b">>)>>, <<"gps", Arr(<<BigInt(5)>>)>> >>),
      Literal(<< <<"password", Arr(<<Num(1), BigInt(5)>>)>>, <<"name", Str(<<"n">>)>> >>) }

InitUnserializable ==
    /\ config \in {[autoEncrypt |-> TRUE], [autoEncrypt |-> FALSE]}
    /\ encryptionKey \in {"key-A"}
    /\ rng = 0
    /\ now = 0
    /\ \E R \in UnserializableRecords : records = <<R>>
    /\ containers = << >>
    /\ consents = << >>
    /\ prefs = << >>
    /\ withdrawals = << >>
    /\ lastOp = NoOp
    /\ input = Undefined
    /\ box = [state |-> "none"]
    /\ guard = NoGuard
    /\ calls = << >>

SpecUnserializable == InitUnserializable /\ [][Next]_vars

\* encrypting the value fails: it is not a string and cannot be serialized
EncryptionFails(value) ==
    value \notin {Null, Undefined} /\ value.t # "string" /\ StringifyThrows(value)

\* C18: when encrypting a field value fails, encrypt returns the original
\* value instead of raising, and process still completes: the returned record
\* holds that field in plaintext, every other field is treated as usual
\* (flagged truthy values encrypted, the others left as they were), and the
\* compliance metadata is attached.
C18_EncryptionFailureTolerated ==
    (lastOp.op = "process" /\ config.autoEncrypt)
    => LET R == records[lastOp.src]
           D == records[lastOp.result.data]
       IN /\ ~lastOp.threw
          /\ HasOwn(D, "_compliance")
          /\ Get(D, "_compliance").meta = lastOp.result.compliance
          /\ \A k \in EnumerableKeys(R) :
                LET v == Get(R, k)
                IN IF classifyField(k).encryptionRequired # Bool(TRUE)
                      \/ ~Truthy(v) \/ isEncrypted(v)
                   THEN Get(D, k) = v
                   ELSE IF EncryptionFails(v)
                   THEN /\ encrypt(v, k, encryptionKey, rng, now) = v
                        /\ Get(D, k) = v
                   ELSE isEncrypted(Get(D, k))

\* a call that left an unserializable email in plaintext and encrypted the
\* password next to it
C18_Witness ==
    /\ lastOp.op = "process"
    /\ config.autoEncrypt
    /\ Get(records[lastOp.src], "email") = BigInt(5)
    /\ Get(records[lastOp.result.data], "email") = BigInt(5)
    /\ isEncrypted(Get(records[lastOp.result.data], "password"))
    /\ HasOwn(records[lastOp.result.data], "_compliance")

-----------------------------------------------------------------------------
(* Claims about the consent recordConsent builds, checked under SpecConsent *)

\* the preferences of the current consent are those the options ask for:
\* necessary true, analytics true unless given as false, the four other
\* flags as given and false when left out
PreferencesAsOptions(preferences, options) ==
    /\ preferences.necessary = Bool(TRUE)
    /\ preferences.analytics = Bool(Opt(options, "analytics") # Bool(FALSE))
    /\ \A flag \in {"marketing", "personalization", "thirdPartySharing",
                    "internationalTransfer"} :
          preferences[flag] = IF flag \in DOMAIN options THEN options[flag]
                              ELSE Bool(FALSE)

\* C19 as stated: recordConsent builds a current consent whose preferences
\* are those the options ask for and whose purpose is options.purpose.
C19_PurposeIsOption ==
    lastOp.op = "recordConsent"
    => /\ PreferencesAsOptions(CurrentConsent(lastOp.rid).preferences, lastOp.options)
       /\ CurrentConsent(lastOp.rid).purpose = Opt(lastOp.options, "purpose")

\* C19, amended: recordConsent builds a current consent whose preferences are
\* those the options ask for and whose purpose is options.purpose when a
\* non-empty one is given, and 'general_processing' otherwise.
C19_RecordedConsent ==
    lastOp.op = "recordConsent"
    => /\ PreferencesAsOptions(CurrentConsent(lastOp.rid).preferences, lastOp.options)
       /\ CurrentConsent(lastOp.rid).purpose
            = IF Truthy(Opt(lastOp.options, "purpose")) THEN lastOp.options.purpose
              ELSE GeneralProcessing

\* a consent recorded from options that ask for necessary = false and give
\* no usable purpose
C19_Witness ==
    /\ lastOp.op = "recordConsent"
    /\ Opt(lastOp.options, "necessary") = Bool(FALSE)
    /\ Opt(lastOp.options, "purpose") = Str(<< >>)
    /\ CurrentConsent(lastOp.rid).purpose = GeneralProcessing
    /\ CurrentConsent(lastOp.rid).preferences.necessary = Bool(TRUE)

-----------------------------------------------------------------------------
(* process on records whose own field names are those the engine uses *)

\* caller's records, one of them with a field of its own named _compliance
ReservedNameRecords ==
    { Literal(<< <<"email", Str(<<"a","@","b">>)>>, <<"_compliance", Str(<<"m">>)>> >>),
      Literal(<< <<"_compliance", Num(7)>>, <<"name", Str(<<"n">>)>> >>),
      Literal(<< <<"email", Str(<<"a","@","b">>)>>, <<"name", Str(<<"n">>)>> >>) }

InitReservedNames ==
    /\ config \in {[autoEncrypt |-> TRUE], [autoEncrypt |-> FALSE]}
    /\ encryptionKey \in {"key-A"}
    /\ rng = 0
    /\ now = 0
    /\ \E R \in ReservedNameRecords : records = <<R>>
    /\ containers = << >>
    /\ consents = << >>
    /\ prefs = << >>
    /\ withdrawals = << >>
    /\ lastOp = NoOp
    /\ input = Undefined
    /\ box = [state |-> "none"]
    /\ guard = NoGuard
    /\ calls = << >>

SpecReservedNames == InitReservedNames /\ [][Next]_vars

\* the record holds the property without listing it among its fields
HoldsHidden(rec, k) == HasOwn(rec, k) /\ k \notin EnumerableKeys(rec)

\* the metadata attached to D is kept out of D's fields, and the metadata R
\* carries from an earlier call is not classified or copied as a field
MetadataKeptApart(R, D) ==
    /\ HoldsHidden(D, "_compliance")
    /\ Get(D, "_compliance").t = "compliance"
    /\ Get(D, "_compliance").meta = lastOp.result.compliance
    /\ HoldsHidden(R, "_compliance")
       => \A i \in 1..Len(Get(D, "_compliance").classifications) :
             Get(D, "_compliance").classifications[i].field # "_compliance"

\* every field of R is a field of D, with its value or its encrypted form
FieldsKept(R, D) ==
    \A k \in EnumerableKeys(R) :
        /\ k \in EnumerableKeys(D)
        /\ Get(D, k) = Get(R, k) \/ isEncrypted(Get(D, k))

\* C20: the compliance metadata process attaches is never enumerated as one
\* of the record's fields (a later call neither classifies nor copies it),
\* and attaching it never overwrites or hides a field the caller supplied,
\* whatever the caller's field names are.
C20_MetadataApartFromFields ==
    lastOp.op = "process"
    => /\ MetadataKeptApart(records[lastOp.src], records[lastOp.result.data])
       /\ FieldsKept(records[lastOp.src], records[lastOp.result.data])

\* what holds of the code: the same for a record that has no field of its own
\* named _compliance
MetadataApartUnlessNamed ==
    (lastOp.op = "process" /\ "_compliance" \notin EnumerableKeys(records[lastOp.src]))
    => /\ MetadataKeptApart(records[lastOp.src], records[lastOp.result.data])
       /\ FieldsKept(records[lastOp.src], records[lastOp.result.data])

-----------------------------------------------------------------------------
(* Claims about the GDPR case of applyLaw, checked under Spec *)

\* the action is among those a process call reported
Emitted(result, action) ==
    \E i \in 1..Len(result.compliance.actions) : result.compliance.actions[i] = action

\* GDPR was among the laws the call applied
GdprApplied(result) ==
    \E i \in 1..Len(result.compliance.applicableLaws) :
        result.compliance.applicableLaws[i] = "GDPR"

\* the record refers to a consent object that has a current consent record
HasCurrentConsent(H, rec) ==
    /\ Truthy(Get(rec, "_consent"))
    /\ H.containers[Get(rec, "_consent").id].current \in 1..Len(H.consents)

\* the current consent of the record is one recorded at this call from the
\* context's flags and purpose
RecordedFromContext(H, rec, context, clock) ==
    LET k == ContainerView(H, Get(rec, "_consent").id)
    IN /\ k.history = << >>
       /\ k.current.recordedAt = clock
       /\ k.current.purpose = OrElse(Opt(context, "action"), GeneralProcessing)
       /\ k.current.preferences.marketing
             = OrElse(Opt(context, "marketingConsent"), Bool(FALSE))
       /\ k.current.preferences.analytics
             = Bool(Opt(context, "analyticsConsent") # Bool(FALSE))

-----------------------------------------------------------------------------
(* process on records with and without excessive fields, whose gps field    *)
(* may be absent, hold a position, or hold null or the empty text           *)

ExcessiveFields == {"socialSecurity", "driversLicense", "passportNumber"}

MinimizedRecords ==
    { Literal(<< <<"gps", g>>, <<"socialSecurity", s>>, <<"passportNumber", p>>,
                 <<"name", Str(<<"n">>)>> >>) :
        g \in {Undefined, Str(<<"1",",","2">>), Null, Str(<< >>)},
        s \in {Undefined, Str(<<"1","2","3">>)},
        p \in {Undefined, Str(<<"P">>)} }

InitMinimize ==
    /\ config \in {[autoEncrypt |-> TRUE], [autoEncrypt |-> FALSE]}
    /\ encryptionKey \in {"key-A"}
    /\ rng = 0
    /\ now = 0
    /\ \E R \in MinimizedRecords : records = <<R>>
    /\ containers = << >>
    /\ consents = << >>
    /\ prefs = << >>
    /\ withdrawals = << >>
    /\ lastOp = NoOp
    /\ input = Undefined
    /\ box = [state |-> "none"]
    /\ guard = NoGuard
    /\ calls = << >>

SpecMinimize == InitMinimize /\ [][Next]_vars

\* the record has one of the excessive fields
Excessive(rec) == \E field \in ExcessiveFields : HasOwn(rec, field)

\* what the claim says of a call process(R, C) that returned D
MinimizedAsClaimed(R, D, result, context) ==
    /\ Excessive(R)
       => /\ Emitted(result, "gdpr_data_minimization_applied")
          /\ Opt(context, "action") = Registration => ~HasOwn(D, "gps")
    /\ ~Excessive(R)
       => /\ ~Emitted(result, "gdpr_data_minimization_applied")
          /\ HasOwn(R, "gps") => HasOwn(D, "gps")

\* C22: applying GDPR to a record that contains socialSecurity, driversLicense
\* or passportNumber emits gdpr_data_minimization_applied and, when the
\* context action is registration, returns a record with no gps field; a
\* record with none of the three keeps its gps field and emits no
\* minimization action, whatever the action is.
C22_Minimization ==
    (lastOp.op = "process" /\ GdprApplied(lastOp.result))
    => MinimizedAsClaimed(records[lastOp.src], records[lastOp.result.data],
                          lastOp.result, lastOp.context)

\* what holds of the code: the same for a record whose gps field, when it
\* has one, holds a truthy value
MinimizationOfTruthyGps ==
    (/\ lastOp.op = "process" /\ GdprApplied(lastOp.result)
     /\ HasOwn(records[lastOp.src], "gps") => Truthy(Get(records[lastOp.src], "gps")))
    => MinimizedAsClaimed(records[lastOp.src], records[lastOp.result.data],
                          lastOp.result, lastOp.context)

-----------------------------------------------------------------------------
(* process on records whose fields have retention periods of 0, 7 and 730   *)
(* days, or a classification inferred from the field's name                 *)

RetentionRecords ==
    { Literal(<< <<"password", p>>, <<"gps", g>>, <<"interests", i>>,
                 <<"userEmail", u>> >>) :
        p \in {Undefined, StrongPassword},
        g \in {Undefined, Str(<<"1",",","2">>)},
        i \in {Undefined, Str(<<"x">>)},
        u \in {Undefined, Str(<<"c","@","d">>)} }

InitRetention ==
    /\ config \in {[autoEncrypt |-> TRUE], [autoEncrypt |-> FALSE]}
    /\ encryptionKey \in {"key-A"}
    /\ rng = 0
    /\ now = 0
    /\ \E R \in RetentionRecords : records = <<R>>
    /\ containers = << >>
    /\ consents = << >>
    /\ prefs = << >>
    /\ withdrawals = << >>
    /\ lastOp = NoOp
    /\ input = Undefined
    /\ box = [state |-> "none"]
    /\ guard = NoGuard
    /\ calls = << >>

SpecRetention == InitRetention /\ [][Next]_vars

\* the fields the returned record D had when its deletion metadata was
\* computed: those it has now, less the blocks attached after that moment
FieldsAtAttachment(D) ==
    { k \in EnumerableKeys(D) :
        /\ k \notin {"_deletionMetadata", "_ccpaRights"}
        /\ ~SkippedValue(Get(D, k)) }

\* the retention periods of the classifications of those fields that have one
RetentionDaysOf(D) ==
    { classifyField(k).retentionDays.n :
        k \in { f \in FieldsAtAttachment(D) : classifyField(f).retentionDays.t = "number" } }

-----------------------------------------------------------------------------
(* Reprocessing: between two calls of process the caller changes a field of *)
(* a record it holds (the user gives or removes an e-mail address, or gives *)
(* interests), then processes that record again                             *)

ReprocessedRecords ==
    { Literal(<< <<"name", Str(<<"n">>)>>, <<"email", e>> >>) :
        e \in {Undefined, Str(<<"a","@","b">>)} }

InitReprocess ==
    /\ config \in {[autoEncrypt |-> TRUE], [autoEncrypt |-> FALSE]}
    /\ encryptionKey \in {"key-A"}
    /\ rng = 0
    /\ now = 0
    /\ \E R \in ReprocessedRecords : records = <<R>>
    /\ containers = << >>
    /\ consents = << >>
    /\ prefs = << >>
    /\ withdrawals = << >>
    /\ lastOp = NoOp
    /\ input = Undefined
    /\ box = [state |-> "none"]
    /\ guard = NoGuard
    /\ calls = << >>

\* the caller's assignments to a record process returned: record.email = ...,
\* delete record.email, record.interests = ...
CallerEdits ==
    /\ lastOp.op = "process"
    /\ \E rid \in {lastOp.result.data} :
         \E edited \in { Put(records[rid], "email", Str(<<"c","@","d">>)),
                         Delete(records[rid], "email"),
                         Put(records[rid], "interests", Str(<<"x">>)) } :
            /\ edited # records[rid]
            /\ records' = [records EXCEPT ![rid] = edited]
            /\ lastOp' = [op |-> "edit", rid |-> rid, threw |-> FALSE]
    /\ UNCHANGED <<config, encryptionKey, rng, now, containers, consents, prefs,
                   withdrawals, input, box, guard, calls>>

NextReprocess == Process \/ CallerEdits

SpecReprocess == InitReprocess /\ [][NextReprocess]_vars

\* the record passed to the call carried deletion metadata
Reprocessed ==
    /\ lastOp.op = "process"
    /\ GdprApplied(lastOp.result)
    /\ HasOwn(records[lastOp.src], "_deletionMetadata")

\* the largest retention period among the classifications of the record's
\* fields
LargestRetention(rec) ==
    LET days == { classifyField(k).retentionDays.n :
                     k \in { f \in EnumerableKeys(rec) :
                                /\ ~SkippedValue(Get(rec, f))
                                /\ classifyField(f).retentionDays.t = "number" } }
    IN CHOOSE n \in days : \A k \in days : k <= n

\* C24: when a record that already carries deletion metadata is processed
\* again, the deletion metadata of the result is recomputed from the fields
\* the record has at that call: canBeDeleted is true exactly when none of
\* email, phone, userId is present, and the retention period follows the
\* current classifications; it is not carried over from the earlier pass.
C24_DeletionMetadataRecomputed ==
    Reprocessed
    => LET D == records[lastOp.result.data]
       IN /\ Get(D, "_deletionMetadata").canBeDeleted
                <=> ~\E field \in {"email", "phone", "userId"} : HasOwn(D, field)
          /\ Get(D, "_deletionMetadata").retentionPeriod = Num(LargestRetention(D))

\* what holds of the code: the result carries the deletion metadata the
\* record passed had, and no deletion-metadata action is reported
DeletionMetadataCarriedOver ==
    Reprocessed
    => /\ Get(records[lastOp.result.data], "_deletionMetadata")
             = Get(records[lastOp.src], "_deletionMetadata")
       /\ ~Emitted(lastOp.result, "gdpr_deletion_metadata_added")

-----------------------------------------------------------------------------
(* process and the consent ledger together: the caller records and          *)
(* withdraws consents on the records it holds, those process returned       *)
(* included, and processes records that may already carry a consent         *)

SharingRecords == { Literal(<< <<"email", Str(<<"a","@","b">>)>> >>), EmptyObject }

InitSharing ==
    /\ config \in {[autoEncrypt |-> TRUE], [autoEncrypt |-> FALSE]}
    /\ encryptionKey \in {"key-A"}
    /\ rng = 0
    /\ now = 0
    /\ \E R \in SharingRecords : records = <<R>>
    /\ containers = << >>
    /\ consents = << >>
    /\ prefs = << >>
    /\ withdrawals = << >>
    /\ lastOp = NoOp
    /\ input = Undefined
    /\ box = [state |-> "none"]
    /\ guard = NoGuard
    /\ calls = << >>

\* the caller records a consent on a record it holds, before the first call
\* of process or after one
RecordConsentBetween ==
    /\ lastOp.op \in {"none", "process"}
    /\ \E rid \in 1..Len(records), o \in {<< >>, [marketing |-> Bool(TRUE)]} :
         /\ SetHeap(recordConsent(TheHeap, rid, o, << >>, now))
         /\ lastOp' = [op |-> "recordConsent", rid |-> rid, options |-> o, threw |-> FALSE]
    /\ now' = now + 1
    /\ UNCHANGED <<config, encryptionKey, rng, input, box, guard, calls>>

\* the caller withdraws a consent on a record it holds, after a call of process
WithdrawConsentBetween ==
    /\ lastOp.op = "process"
    /\ \E rid \in 1..Len(records), ty \in {"all", "analytics"} :
         /\ ~withdrawConsentThrows(TheHeap, rid)
         /\ SetHeap(withdrawConsent(TheHeap, rid, ty, << >>, now))
         /\ lastOp' = [op |-> "withdrawConsent", rid |-> rid, consentType |-> ty,
                       threw |-> FALSE]
    /\ now' = now + 1
    /\ UNCHANGED <<config, encryptionKey, rng, input, box, guard, calls>>

NextSharing == Process \/ RecordConsentBetween \/ WithdrawConsentBetween

SpecSharing == InitSharing /\ [][NextSharing]_vars

\* this step is a consent call on a record process returned (the caller's own
\* record is the first one)
ConsentCallOnResult ==
    /\ Called("recordConsent") \/ Called("withdrawConsent")
    /\ lastOp'.rid > 1

\* record rid and the consent state reachable from it (current, history,
\* withdrawals) read the same after the step as before
ConsentStateKept(rid) ==
    /\ records'[rid] = records[rid]
    /\ Truthy(Get(records[rid], "_consent"))
       => ContainerView(TheHeap', ConsentOf(rid)) = ContainerView(TheHeap, ConsentOf(rid))

\* C25: the record returned by process shares no mutable structure with the
\* record passed in or with the record returned by any other process call: a
\* later recordConsent or withdrawConsent applied to one returned record
\* never changes the consent state reachable from the caller's input record
\* or from another call's result, also when the input already carried a
\* consent.
C25_NoSharedConsentState ==
    [][ ConsentCallOnResult
        => \A other \in (1..Len(records)) \ {lastOp'.rid} : ConsentStateKept(other)
      ]_vars

\* what holds of the code: a consent call on a returned record leaves alone
\* every record that refers to another consent object or to none, and a
\* record that carried no consent gets a consent object of its own
ConsentSharedWithCopiesOnly ==
    [][ /\ ConsentCallOnResult
           => \A other \in (1..Len(records)) \ {lastOp'.rid} :
                  Get(records[other], "_consent") # Get(records[lastOp'.rid], "_consent")
                  => ConsentStateKept(other)
        /\ (Called("process") /\ ~Truthy(Get(records[lastOp'.src], "_consent")))
           => Get(records'[lastOp'.result.data], "_consent") = Ref(Len(containers) + 1)
      ]_vars

-----------------------------------------------------------------------------
(* Claims about what process encrypts, checked under Spec *)

\* the value is neither null, nor undefined, nor the empty text
NonEmpty(value) == value.t \notin {"null", "undefined"} /\ value # Str(<< >>)

\* the fields of the record that classify as high or critical and hold a
\* non-empty value
SensitiveFields(rec) ==
    { k \in EnumerableKeys(rec) :
        /\ NonEmpty(Get(rec, k))
        /\ classifyField(k).sensitivity \in {"high", "critical"} }

\* C26: with auto-encryption enabled, in the record returned by process every
\* field with a non-empty value that classifies as high or critical
\* sensitivity is an EncryptedField, whether its classification came from the
\* fixed table (email) or from a name pattern (userEmail, Email,
\* mobileNumber).
C26_SensitiveFieldsEncrypted ==
    (lastOp.op = "process" /\ config.autoEncrypt)
    => \A k \in SensitiveFields(records[lastOp.result.data]) :
          isEncrypted(Get(records[lastOp.result.data], k))

\* what holds of the code: the same for the fields the fixed table names
TableFieldsEncrypted ==
    (lastOp.op = "process" /\ config.autoEncrypt)
    => \A k \in SensitiveFields(records[lastOp.result.data]) \cap TableNames :
          isEncrypted(Get(records[lastOp.result.data], k))

-----------------------------------------------------------------------------
(* Claims about withdrawal and later queries, checked under SpecConsent *)

\* the processing types hasValidConsent recognises, 'necessary' apart
WithdrawableTypes ==
    {"marketing", "analytics", "personalization", "third_party_sharing",
     "international_transfer"}

\* since the current consent of record rid was recorded, the processing type,
\* or 'all', has been withdrawn
WithdrawnSinceRecorded(rid, processingType) ==
    /\ Truthy(Get(records[rid], "_consent"))
    /\ \E i \in 1..Len(ContainerNow(ConsentOf(rid)).withdrawals) :
          LET w == ContainerNow(ConsentOf(rid)).withdrawals[i]
          IN /\ w.withdrawnAt > ContainerNow(ConsentOf(rid)).current.recordedAt
             /\ w.withdrawnConsentType \in {processingType, "all"}

\* C27: after withdrawConsent(record, T) for a processing type T other than
\* 'necessary' that hasValidConsent recognises, and after
\* withdrawConsent(record, 'all'), hasValidConsent(record, T) returns false,
\* and stays false until a later recordConsent grants T again.
C27_WithdrawnIsInvalid ==
    (/\ lastOp.op = "hasValidConsent"
     /\ lastOp.processingType \in WithdrawableTypes
     /\ WithdrawnSinceRecorded(lastOp.rid, lastOp.processingType))
    => lastOp.result = FALSE

\* what holds of the code: the same for the types whose name is the name of
\* their preference flag, and for every type after a withdrawal of 'all'
WithdrawnFlagIsInvalid ==
    (/\ lastOp.op = "hasValidConsent"
     /\ lastOp.processingType \in WithdrawableTypes
     /\ \/ WithdrawnSinceRecorded(lastOp.rid, "all")
        \/ /\ WithdrawnSinceRecorded(lastOp.rid, lastOp.processingType)
           /\ FlagOf(lastOp.processingType) = lastOp.processingType)
    => lastOp.result = FALSE

\* the current consent of record rid was the subject of withdrawConsent with
\* the type 'necessary'
NecessaryWithdrawn(rid) ==
    \E i \in 1..Len(ContainerNow(ConsentOf(rid)).withdrawals) :
       LET w == ContainerNow(ConsentOf(rid)).withdrawals[i]
       IN /\ w.withdrawnAt > ContainerNow(ConsentOf(rid)).current.recordedAt
          /\ w.withdrawnConsentType = "necessary"

\* C28: after any sequence of recordConsent and withdrawConsent calls on a
\* record, with any consent type including 'necessary' and 'all', the current
\* consent's preferences.necessary is true.
C28_NecessaryAlwaysTrue ==
    \A rid \in 1..Len(records) :
        Truthy(Get(records[rid], "_consent"))
        => PreferenceIsTrue(CurrentConsent(rid).preferences, "necessary")

\* what holds of the code: the same as long as 'necessary' itself was not
\* withdrawn from the current consent
NecessaryTrueUnlessWithdrawn ==
    \A rid \in 1..Len(records) :
        (Truthy(Get(records[rid], "_consent")) /\ ~NecessaryWithdrawn(rid))
        => PreferenceIsTrue(CurrentConsent(rid).preferences, "necessary")

\* the fields the call replaced by their encrypted form: encrypted in the
\* returned record D and not in the record R that was passed
EncryptedByCall(R, D) == EncryptedFields(D) \ EncryptedFields(R)

\* C29: process adds the action sensitive_fields_encrypted only when
\* auto-encryption is enabled and at least one field was replaced by its
\* encrypted form during that call; a call that encrypts nothing (no flagged
\* field, or every flagged field already encrypted) does not record the
\* action.
C29_EncryptedActionOnlyWhenEncrypted ==
    (lastOp.op = "process" /\ Emitted(lastOp.result, "sensitive_fields_encrypted"))
    => /\ config.autoEncrypt
       /\ EncryptedByCall(records[lastOp.src], records[lastOp.result.data]) # {}

\* what holds of the code: the action is recorded exactly when auto-encryption
\* is enabled
EncryptedActionWhenEnabled ==
    lastOp.op = "process"
    => (Emitted(lastOp.result, "sensitive_fields_encrypted") <=> config.autoEncrypt)

-----------------------------------------------------------------------------
(* The facade under concurrent calls: index.js getDefaultInstance and the   *)
(* module-level makeCompliant, classifyData and handleDeletionRequest,      *)
(* which call the method of the same name on the default DataGuard object.  *)
(* An async method runs without interruption up to its first await; the     *)
(* call then waits, and any waiting call may be the next to go on.          *)

MaxCalls == 3

\* new DataGuard(config): not initialized, no rule engine; constructed counts
\* the rule engines made for the object
createDataGuard(g) ==
    [g EXCEPT !.instances = Append(@, [initialized |-> FALSE, ruleEngine |-> 0,
                                       constructed |-> 0])]

\* index.js getDefaultInstance: the guard state after the call; the instance
\* returned is its defaultInstance
getDefaultInstance(g) ==
    IF g.defaultInstance = 0
    THEN [createDataGuard(g) EXCEPT !.defaultInstance = Len(g.instances) + 1]
    ELSE g

\* an initialize without the early return: a rule engine is made at each call
initialize_Always(g, id) ==
    [g EXCEPT !.engines = @ + 1,
              !.instances[id] = [initialized |-> TRUE, ruleEngine |-> g.engines + 1,
                                 constructed |-> @.constructed + 1]]

\* DataGuard.initialize on the object with the given id
initialize(g, id) ==
    IF g.instances[id].initialized THEN g
    ELSE [g EXCEPT !.engines = @ + 1,
                   !.instances[id] = [initialized |-> TRUE, ruleEngine |-> g.engines + 1,
                                      constructed |-> @.constructed + 1]]

FacadeMethods == {"makeCompliant", "classifyData", "handleDeletionRequest"}

InitGuard ==
    /\ config = [env |-> Development, strictMode |-> TRUE, autoEncrypt |-> TRUE,
                 enableAudit |-> TRUE]
    /\ encryptionKey = Undefined
    /\ rng = 0
    /\ now = 0
    /\ records = <<Literal(<< <<"email", Str(<<"a","@","b">>)>> >>)>>
    /\ containers = << >>
    /\ consents = << >>
    /\ prefs = << >>
    /\ withdrawals = << >>
    /\ lastOp = NoOp
    /\ input \in [environmentKey : EnvironmentKeys]
    /\ box = [state |-> "none"]
    /\ guard = NoGuard
    /\ calls = << >>

\* the caller asks for the default instance
GetDefaultInstance ==
    /\ guard' = getDefaultInstance(guard)
    /\ lastOp' = [op |-> "getDefaultInstance", threw |-> FALSE,
                  result |-> getDefaultInstance(guard).defaultInstance]
    /\ UNCHANGED <<config, encryptionKey, rng, now, heap, input, box, calls>>

\* the calls of makeCompliant that have not returned yet
WaitingToProcess ==
    { i \in 1..Len(calls) : calls[i].method = "makeCompliant" /\ calls[i].pc = "awaiting" }

\* a facade method is called: getDefaultInstance, then the method up to the
\* end of await this.initialize(); a rule engine made here makes its
\* encryption engine, which resolves the master key
CallBegins ==
    /\ Len(calls) < MaxCalls
    /\ \E method \in FacadeMethods :
         \E g \in {initialize(getDefaultInstance(guard),
                              getDefaultInstance(guard).defaultInstance)} :
            /\ method = "makeCompliant"
               => Len(records) + Cardinality(WaitingToProcess) < MaxRecords
            /\ guard' = g
            /\ calls' = Append(calls, [method |-> method, pc |-> "awaiting",
                                       instance |-> g.defaultInstance, engine |-> 0])
            /\ IF g.engines > guard.engines
               THEN /\ encryptionKey' = ResolveEncryptionKey(config, input.environmentKey, rng)
                    /\ rng' = IF UsesTemporaryKey(config, input.environmentKey)
                              THEN rng + 1 ELSE rng
               ELSE UNCHANGED <<encryptionKey, rng>>
            /\ lastOp' = [op |-> "call", method |-> method, threw |-> FALSE]
    /\ UNCHANGED <<config, now, heap, input, box>>

\* a waiting makeCompliant goes on after await this.initialize(): the
\* validation, then this.ruleEngine.process on the caller's record, which
\* fails when the rule engine is still null
MakeCompliantResumes ==
    \E i \in 1..Len(calls) :
       /\ calls[i].pc = "awaiting" /\ calls[i].method = "makeCompliant"
       /\ ~makeCompliantRejects(RecordValue(1))
       /\ IF guard.instances[calls[i].instance].ruleEngine = 0
          THEN /\ calls' = [calls EXCEPT ![i].pc = "failed"]
               /\ lastOp' = [op |-> "makeCompliant", call |-> i, threw |-> TRUE]
               /\ UNCHANGED <<rng, now, heap>>
          ELSE /\ \E p \in {process(TheHeap, 1, << >>, config, encryptionKey, rng, now)} :
                    /\ SetHeap(p.H)
                    /\ rng' = p.r
                    /\ lastOp' = [op |-> "makeCompliant", call |-> i, threw |-> FALSE,
                                  result |-> [success |-> TRUE, data |-> p.result.data,
                                              compliance |-> p.result.compliance,
                                              processingTime |-> 0,
                                              warnings |-> p.result.warnings]]
               /\ calls' = [calls EXCEPT
                               ![i].pc = "done",
                               ![i].engine = guard.instances[calls[i].instance].ruleEngine]
               /\ now' = now + 1
       /\ UNCHANGED <<config, encryptionKey, input, box, guard>>

\* a waiting classifyData or handleDeletionRequest goes on, likewise
QueryResumes ==
    \E i \in 1..Len(calls) :
       /\ calls[i].pc = "awaiting" /\ calls[i].method # "makeCompliant"
       /\ IF guard.instances[calls[i].instance].ruleEngine = 0
          THEN /\ calls' = [calls EXCEPT ![i].pc = "failed"]
               /\ lastOp' = [op |-> calls[i].method, call |-> i, threw |-> TRUE]
          ELSE /\ lastOp' = [op |-> calls[i].method, call |-> i, threw |-> FALSE,
                             result |-> IF calls[i].method = "classifyData"
                                        THEN [classifications |-> classifyData(records[1])]
                                        ELSE [success |-> TRUE,
                                              actions |-> handleDeletion("user123", "GDPR").actions]]
               /\ calls' = [calls EXCEPT
                               ![i].pc = "done",
                               ![i].engine = guard.instances[calls[i].instance].ruleEngine]
       /\ UNCHANGED <<config, encryptionKey, rng, now, heap, input, box, guard>>

NextGuard ==
    \/ GetDefaultInstance
    \/ CallBegins
    \/ MakeCompliantResumes
    \/ QueryResumes

SpecGuard == InitGuard /\ [][NextGuard]_vars

\* C30: for one DataGuard instance, under any interleaving of concurrent
\* makeCompliant, classifyData and handleDeletionRequest calls, the rule
\* engine (and with it the encryption engine and its master key) is
\* constructed at most once, no call uses the engine before it is
\* constructed, and getDefaultInstance always returns the same instance.
C30_EngineConstructedOnce ==
    /\ \A id \in 1..Len(guard.instances) : guard.instances[id].constructed <= 1
    /\ guard.engines <= 1
    /\ (encryptionKey = Undefined) <=> (guard.engines = 0)
    /\ \A i \in 1..Len(calls) :
          /\ guard.instances[calls[i].instance].ruleEngine = 1
          /\ calls[i].pc \in {"awaiting", "done"}
          /\ calls[i].pc = "done" => calls[i].engine = 1
    /\ Len(guard.instances) <= 1
    /\ guard.defaultInstance = Len(guard.instances)
    /\ lastOp.op = "getDefaultInstance" => lastOp.result = 1

\* three calls were made before the first went on, and a later one has
\* finished while the first still waits
C30_Witness ==
    /\ Len(calls) = MaxCalls
    /\ calls[1].pc = "awaiting"
    /\ calls[2].pc = "done" /\ calls[3].pc = "done"
    /\ calls[1].method # calls[2].method
    /\ lastOp.op = "getDefaultInstance"

====
